---- MODULE Spec2Model ----
(***************************************************************************)
(* Model of github.com/woozymasta/pathrules: gitignore-like path rules,    *)
(* the ordered matcher and the recursive rules provider.                   *)
(*                                                                         *)
(* A string is a Go string: the sequence of its bytes, each byte written   *)
(* as the one-character string of its code (ByteOf), so that every byte    *)
(* operation of the Go code (prefix, suffix, index, trim, replace) is      *)
(* computed and not assumed.  A character outside ASCII is the sequence of *)
(* the bytes of its UTF-8 encoding, and the library functions that read    *)
(* runes (strings.TrimSpace, the regexp package) decode them.              *)
(* Indices in the Go code are 0-based; the                                 *)
(* operators below keep the 0-based results of the Go library functions    *)
(* (Index, IndexByte, LastIndexByte) and convert when they address a       *)
(* sequence.  path/filepath is modelled for a Unix build, where the        *)
(* separator is "/", IsAbs is "starts with /" and ToSlash is the identity. *)
(***************************************************************************)
EXTENDS Integers, Sequences, FiniteSets, TLC

VARIABLES
    \* ---- cleanRelPath / normalizePath applied to one raw path
    relPath,      \* the raw rel_path handed to the provider
    cleaned,      \* [path, err]; err is "pending" before the call
    \* ---- one Matcher: construction and one decision
    rules,        \* the []Rule handed to NewMatcher
    opts,         \* MatcherOptions [CaseInsensitive, DefaultAction]
    matcher,      \* the (matcher, error) pair of NewMatcher; err is "pending" before
    path,         \* the path handed to Matcher.Decide
    isDir,        \* the is_dir flag handed to Matcher.Decide
    result,       \* the MatchResult Decide returned
    decided,      \* whether Matcher.Decide has returned
    \* ---- one Provider, the rules files below its root and its callers
    prov,         \* the fields NewProvider sets and nothing changes afterwards
    fs,           \* directory key -> the rules file of that directory on disk
    cache,        \* p.cache: directory key -> cachedDirMatcher (ok = key present)
    mu,           \* p.mu: the thread holding it, or "none"
    th,           \* thread -> its call, its position in it and what it returned
    loads,        \* directory key -> executions of loadAndCompileDirMatcher
    reads,        \* directory keys whose rules file content was read
    seen,         \* the (dir, matcher, err) outcomes loadDirMatcher returned
    \* ---- one call of a parser or of NewProvider
    src,          \* the input of the call: a text, or a list of extensions
    parsed,       \* [done, rules]: the []Rule a parser returned
    made          \* [done, p, err]: what NewProvider returned

pathVars == <<relPath, cleaned>>
matcherVars == <<rules, opts, matcher, path, isDir, result, decided>>
providerVars == <<prov, fs, cache, mu, th, loads, reads, seen>>
loadVars == <<src, parsed, made>>
vars == <<relPath, cleaned, rules, opts, matcher, path, isDir, result, decided,
         prov, fs, cache, mu, th, loads, reads, seen, src, parsed, made>>

-----------------------------------------------------------------------------
(* Go strings package, on sequences of characters.                         *)

HasPrefix(s, p) == Len(p) <= Len(s) /\ SubSeq(s, 1, Len(p)) = p

HasSuffix(s, p) == Len(p) <= Len(s) /\ SubSeq(s, Len(s) - Len(p) + 1, Len(s)) = p

TrimPrefix(s, p) == IF HasPrefix(s, p) THEN SubSeq(s, Len(p) + 1, Len(s)) ELSE s

TrimSuffix(s, p) == IF HasSuffix(s, p) THEN SubSeq(s, 1, Len(s) - Len(p)) ELSE s

\* strings.Index: 0-based index of the first occurrence of sub in s, or -1.
Index(s, sub) ==
    LET hits == {i \in 1..(Len(s) - Len(sub) + 1) : SubSeq(s, i, i + Len(sub) - 1) = sub}
    IN IF hits = {} THEN -1
       ELSE (CHOOSE i \in hits : \A j \in hits : i <= j) - 1

Contains(s, sub) == Index(s, sub) >= 0

\* strings.IndexByte / strings.LastIndexByte: 0-based, or -1.
IndexByte(s, c) == Index(s, <<c>>)

LastIndexByte(s, c) ==
    LET hits == {i \in 1..Len(s) : s[i] = c}
    IN IF hits = {} THEN -1
       ELSE (CHOOSE i \in hits : \A j \in hits : i >= j) - 1

\* s[from:] and s[:to] and s[from:to] with Go's 0-based half-open bounds.
SliceFrom(s, from) == SubSeq(s, from + 1, Len(s))
SliceTo(s, to) == SubSeq(s, 1, to)
Slice(s, from, to) == SubSeq(s, from + 1, to)

\* The Go byte s[i].
At(s, i) == s[i + 1]

\* The byte with code n is ByteOf[n]: the character U+0001..U+00FF of that
\* code.  TLA+ has no literal for the byte 96 alone nor for the byte 0.
ByteOf ==
  << "", "", "", "", "", "", "", "",
     "\t", "\n", "", "\f", "\r", "", "", "",
     "", "", "", "", "", "", "", "",
     "", "", "", "", "", "", "", " ",
     "!", "\"", "#", "$", "%", "&", "'", "(",
     ")", "*", "+", ",", "-", ".", "/", "0",
     "1", "2", "3", "4", "5", "6", "7", "8",
     "9", ":", ";", "<", "=", ">", "?", "@",
     "A", "B", "C", "D", "E", "F", "G", "H",
     "I", "J", "K", "L", "M", "N", "O", "P",
     "Q", "R", "S", "T", "U", "V", "W", "X",
     "Y", "Z", "[", "\\", "]", "^", "_", "",
     "a", "b", "c", "d", "e", "f", "g", "h",
     "i", "j", "k", "l", "m", "n", "o", "p",
     "q", "r", "s", "t", "u", "v", "w", "x",
     "y", "z", "{", "|", "}", "~", "", "",
     "", "", "", "", "", "", "", "",
     "", "", "", "", "", "", "", "",
     "", "", "", "", "", "", "", "",
     "", "", "", "", "", "", "", " ",
     "¡", "¢", "£", "¤", "¥", "¦", "§", "¨",
     "©", "ª", "«", "¬", "­", "®", "¯", "°",
     "±", "²", "³", "´", "µ", "¶", "·", "¸",
     "¹", "º", "»", "¼", "½", "¾", "¿", "À",
     "Á", "Â", "Ã", "Ä", "Å", "Æ", "Ç", "È",
     "É", "Ê", "Ë", "Ì", "Í", "Î", "Ï", "Ð",
     "Ñ", "Ò", "Ó", "Ô", "Õ", "Ö", "×", "Ø",
     "Ù", "Ú", "Û", "Ü", "Ý", "Þ", "ß", "à",
     "á", "â", "ã", "ä", "å", "æ", "ç", "è",
     "é", "ê", "ë", "ì", "í", "î", "ï", "ð",
     "ñ", "ò", "ó", "ô", "õ", "ö", "÷", "ø",
     "ù", "ú", "û", "ü", "ý", "þ", "ÿ">>

ByteCodes == [c \in {ByteOf[n] : n \in 1..Len(ByteOf)} |->
                 CHOOSE n \in 1..Len(ByteOf) : ByteOf[n] = c]

\* The code of a byte.
Code(c) == ByteCodes[c]

\* utf8.RuneError, and utf8.DecodeRuneInString(s[i:]): the rune at byte i and
\* the bytes it takes; a byte that starts no encoding is RuneError of width 1.
\* The second byte is limited by the first (no overlong form, no surrogate,
\* nothing above U+10FFFF).
RuneError == 65533

\* Whether byte k of s is there and lies in lo..hi, and the six low bits of a
\* continuation byte.
ByteIn(s, k, lo, hi) == k < Len(s) /\ Code(At(s, k)) \in lo..hi
LowBits(s, k) == Code(At(s, k)) % 64

DecodeRune2(s, i, b0) ==
    IF ByteIn(s, i + 1, 128, 191)
    THEN [r |-> (b0 % 32) * 64 + LowBits(s, i + 1), size |-> 2]
    ELSE [r |-> RuneError, size |-> 1]

DecodeRune3(s, i, b0) ==
    IF /\ ByteIn(s, i + 1, IF b0 = 224 THEN 160 ELSE 128, IF b0 = 237 THEN 159 ELSE 191)
       /\ ByteIn(s, i + 2, 128, 191)
    THEN [r |-> (b0 % 16) * 4096 + LowBits(s, i + 1) * 64 + LowBits(s, i + 2),
          size |-> 3]
    ELSE [r |-> RuneError, size |-> 1]

DecodeRune4(s, i, b0) ==
    IF /\ ByteIn(s, i + 1, IF b0 = 240 THEN 144 ELSE 128, IF b0 = 244 THEN 143 ELSE 191)
       /\ ByteIn(s, i + 2, 128, 191)
       /\ ByteIn(s, i + 3, 128, 191)
    THEN [r |-> (b0 % 8) * 262144 + LowBits(s, i + 1) * 4096
                + LowBits(s, i + 2) * 64 + LowBits(s, i + 3),
          size |-> 4]
    ELSE [r |-> RuneError, size |-> 1]

DecodeRuneFrom(s, i, b0) ==
    IF b0 < 128 THEN [r |-> b0, size |-> 1]
    ELSE IF b0 < 194 THEN [r |-> RuneError, size |-> 1]
    ELSE IF b0 < 224 THEN DecodeRune2(s, i, b0)
    ELSE IF b0 < 240 THEN DecodeRune3(s, i, b0)
    ELSE IF b0 < 245 THEN DecodeRune4(s, i, b0)
    ELSE [r |-> RuneError, size |-> 1]

DecodeRune(s, i) == DecodeRuneFrom(s, i, Code(At(s, i)))

\* utf8.DecodeLastRuneInString of a string that is not empty: the start of
\* the last rune is looked for in the last four bytes, and what is decoded
\* there has to end at the end of the string.
LastRuneStart(s, lim, starts) ==
    IF starts # {} THEN CHOOSE k \in starts : \A j \in starts : k >= j
    ELSE IF lim - 1 < 0 THEN 0
    ELSE lim - 1

LastRuneChecked(s, start, d) ==
    IF start + d.size # Len(s) THEN [r |-> RuneError, size |-> 1] ELSE d

LastRuneFrom(s, start) == LastRuneChecked(s, start, DecodeRune(s, start))

LastRuneIn(s, lim) ==
    LastRuneFrom(s, LastRuneStart(s, lim, {k \in lim..(Len(s) - 2) : ~ByteIn(s, k, 128, 191)}))

DecodeLastRune(s) ==
    IF Code(At(s, Len(s) - 1)) < 128 THEN [r |-> Code(At(s, Len(s) - 1)), size |-> 1]
    ELSE LastRuneIn(s, IF Len(s) - 4 < 0 THEN 0 ELSE Len(s) - 4)

\* The bytes string(c) makes of a byte c: the UTF-8 encoding of the rune
\* whose number is the byte, which is two bytes from 0x80 on.
RuneString(r) ==
    IF r < 128 THEN <<ByteOf[r]>>
    ELSE <<ByteOf[192 + (r \div 64)], ByteOf[128 + (r % 64)]>>

\* unicode.IsSpace of a rune: tab, line feed, vertical tab, form feed,
\* carriage return, space, U+0085, U+00A0, and the White_Space of Unicode
\* above Latin-1: U+1680, U+2000..U+200A, U+2028, U+2029, U+202F, U+205F,
\* U+3000.
IsSpace(r) ==
    \/ r \in {9, 10, 11, 12, 13, 32, 133, 160}
    \/ r \in {5760, 8232, 8233, 8239, 8287, 12288}
    \/ r \in 8192..8202

\* strings.TrimLeftFunc(s, unicode.IsSpace) and strings.TrimRightFunc: the
\* runes of white space are dropped from one end; a byte that decodes to
\* RuneError stays.
RECURSIVE TrimLeftSpace(_)
TrimLeftRune(s, d) == IF IsSpace(d.r) THEN TrimLeftSpace(SliceFrom(s, d.size)) ELSE s
TrimLeftSpace(s) == IF s = <<>> THEN s ELSE TrimLeftRune(s, DecodeRune(s, 0))

RECURSIVE TrimRightSpace(_)
TrimRightRune(s, d) ==
    IF IsSpace(d.r) THEN TrimRightSpace(SliceTo(s, Len(s) - d.size)) ELSE s
TrimRightSpace(s) == IF s = <<>> THEN s ELSE TrimRightRune(s, DecodeLastRune(s))

\* strings.TrimSpace: the ASCII white space is skipped byte by byte, and from
\* the first byte outside ASCII on the runes are trimmed, which is the
\* trimming by runes from both ends.
TrimSpace(s) == TrimRightSpace(TrimLeftSpace(s))

\* strings.Trim(s, cutset) / strings.TrimLeft(s, cutset) for a set of characters.
TrimLeft(s, cutset) ==
    LET keep == {i \in 1..Len(s) : s[i] \notin cutset}
    IN IF keep = {} THEN <<>>
       ELSE SubSeq(s, CHOOSE i \in keep : \A j \in keep : i <= j, Len(s))

Trim(s, cutset) ==
    LET keep == {i \in 1..Len(s) : s[i] \notin cutset}
    IN IF keep = {} THEN <<>>
       ELSE SubSeq(s, CHOOSE i \in keep : \A j \in keep : i <= j,
                      CHOOSE i \in keep : \A j \in keep : i >= j)

\* strings.ReplaceAll(s, old, new) for a non-empty old: left to right, non-overlapping.
RECURSIVE ReplaceAll(_, _, _)
ReplaceAll(s, old, new) ==
    LET i == Index(s, old)
    IN IF i < 0 THEN s
       ELSE SliceTo(s, i) \o new \o ReplaceAll(SliceFrom(s, i + Len(old)), old, new)

\* strings.ReplaceAll(s, `\`, `/`)
BackslashToSlash(s) == [i \in 1..Len(s) |-> IF s[i] = "\\" THEN "/" ELSE s[i]]

\* The "/"-separated components of s (strings.Split(s, "/")).
RECURSIVE Split(_)
Split(s) ==
    LET i == IndexByte(s, "/")
    IN IF i < 0 THEN <<s>>
       ELSE <<SliceTo(s, i)>> \o Split(SliceFrom(s, i + 1))

\* strings.Join(parts, "/")
RECURSIVE Join(_)
Join(parts) ==
    IF parts = <<>> THEN <<>>
    ELSE IF Len(parts) = 1 THEN parts[1]
    ELSE parts[1] \o <<"/">> \o Join(Tail(parts))

-----------------------------------------------------------------------------
(* path.go: the candidate normalizer.                                      *)

\* path.Clean of a rooted path: empty and "." components are dropped, ".."
\* removes the component before it and is dropped at the root; the result is
\* "/" followed by the remaining components joined by "/".
RECURSIVE CleanStack(_, _)
CleanStack(parts, stack) ==
    IF parts = <<>> THEN stack
    ELSE LET c == Head(parts)
         IN IF c = <<>> \/ c = <<".">> THEN CleanStack(Tail(parts), stack)
            ELSE IF c = <<".", ".">>
                 THEN CleanStack(Tail(parts),
                                 IF stack = <<>> THEN stack
                                 ELSE SubSeq(stack, 1, Len(stack) - 1))
            ELSE CleanStack(Tail(parts), Append(stack, c))

pathCleanRooted(p) == <<"/">> \o Join(CleanStack(Split(p), <<>>))

\* isSimpleNormalizedPath: the fast-path predicate of normalizePath.
isSimpleNormalizedPath(p) ==
    ~ \/ p = <<>>
      \/ p = <<".">>
      \/ p = <<".", ".">>
      \/ HasPrefix(p, <<"/">>)
      \/ HasSuffix(p, <<"/">>)
      \/ HasPrefix(p, <<".", "/">>)
      \/ HasPrefix(p, <<".", ".", "/">>)
      \/ Contains(p, <<"/", "/">>)
      \/ Contains(p, <<"/", ".", "/">>)
      \/ Contains(p, <<"/", ".", ".", "/">>)
      \/ HasSuffix(p, <<"/", ".", ".">>)

\* normalizePath: matching path to slash-separated relative clean form.
normalizePath(raw) ==
    LET \* the steps of the function, the last one first
        afterClean(c) == IF c = <<".">> THEN <<>> ELSE TrimSuffix(c, <<"/">>)
        afterTrimPrefix(r4) ==
            IF r4 = <<>> THEN <<>>
            ELSE IF isSimpleNormalizedPath(r4) THEN r4
            ELSE afterClean(TrimPrefix(pathCleanRooted(<<"/">> \o r4), <<"/">>))
        afterTrimSpace(r1) ==
            afterTrimPrefix(
                TrimPrefix(TrimPrefix(IF Contains(r1, <<"\\">>) THEN BackslashToSlash(r1)
                                      ELSE r1,
                                      <<".", "/">>),
                           <<"/">>))
    IN afterTrimSpace(TrimSpace(raw))

\* normalizePattern: trim, then every backslash becomes a slash.
normalizePattern(raw) == BackslashToSlash(TrimSpace(raw))

\* asciiLower: only A-Z are lowered (b[j] += 'a' - 'A'); every other byte is
\* kept.
UpperToLower ==
    [A |-> "a", B |-> "b", C |-> "c", D |-> "d", E |-> "e", F |-> "f", G |-> "g",
     H |-> "h", I |-> "i", J |-> "j", K |-> "k", L |-> "l", M |-> "m", N |-> "n",
     O |-> "o", P |-> "p", Q |-> "q", R |-> "r", S |-> "s", T |-> "t", U |-> "u",
     V |-> "v", W |-> "w", X |-> "x", Y |-> "y", Z |-> "z"]

LowerOf(c) == IF c \in DOMAIN UpperToLower THEN UpperToLower[c] ELSE c

\* A folding that also lowers the bytes after the letters.
asciiLowerWide(s) == [i \in 1..Len(s) |-> IF s[i] = "^" THEN "~" ELSE LowerOf(s[i])]

asciiLower(s) == [i \in 1..Len(s) |-> LowerOf(s[i])]

-----------------------------------------------------------------------------
(* provider.go: validation of provider-relative paths.                     *)

\* filepath.IsAbs and filepath.ToSlash of a Unix build.
filepathIsAbs(p) == HasPrefix(p, <<"/">>)
filepathToSlash(p) == p

\* cleanRelPath: (path, error) for one provider-relative path.
Rejected == [path |-> <<>>, err |-> "ErrPathOutsideRoot"]

cleanRelPath(raw) ==
    LET \* the steps of the function, the last one first
        afterNormalize(p6) ==
            IF p6 = <<>> THEN Rejected ELSE [path |-> p6, err |-> "nil"]
        afterReplace(p5) ==
            IF Contains(p5, <<"/", ".", ".", "/">>) \/ HasSuffix(p5, <<"/", ".", ".">>)
            THEN Rejected
            ELSE afterNormalize(normalizePath(p5))
        afterTrimPrefix(p3) ==
            IF p3 = <<>> THEN Rejected
            ELSE IF p3 = <<".">> \/ p3 = <<".", ".">> \/ HasPrefix(p3, <<".", ".", "/">>)
                 THEN Rejected
            ELSE afterReplace(TrimPrefix(ReplaceAll(p3, <<"/", ".", "/">>, <<"/">>),
                                         <<".", "/">>))
        afterToSlash(p1) ==
            IF HasPrefix(p1, <<"/">>) THEN Rejected
            ELSE afterTrimPrefix(TrimPrefix(TrimPrefix(p1, <<".", "/">>), <<"/">>))
        afterTrimSpace(trimmed) ==
            IF trimmed = <<>> THEN Rejected
            ELSE IF filepathIsAbs(trimmed) THEN Rejected
            ELSE afterToSlash(filepathToSlash(trimmed))
    IN afterTrimSpace(TrimSpace(raw))

\* pathDir: the directory part of a relative path.
pathDir(p, dir) ==
    IF dir THEN p
    ELSE LET i == LastIndexByte(p, "/")
         IN IF i >= 0 THEN SliceTo(p, i) ELSE <<>>

-----------------------------------------------------------------------------
(* pattern.go: glob meta detection.  At(s, i) is the Go byte s[i].         *)

\* findCharClassEnd: index of the "]" closing the class opened at start, or -1.
findCharClassEnd(pat, start) ==
    IF start < 0 \/ start >= Len(pat) \/ At(pat, start) # "[" THEN -1
    ELSE LET i1 == start + 1
             i2 == IF i1 < Len(pat) /\ At(pat, i1) \in {"!", "^"} THEN i1 + 1 ELSE i1
             i3 == IF i2 < Len(pat) /\ At(pat, i2) = "]" THEN i2 + 1 ELSE i2
             ends == {i \in i3..(Len(pat) - 1) : At(pat, i) = "]"}
         IN IF ends = {} THEN -1 ELSE CHOOSE i \in ends : \A j \in ends : i <= j

\* patternHasGlobMeta: "*", "?" or a closed "[...]" class.
patternHasGlobMeta(pattern) ==
    \E i \in 0..(Len(pattern) - 1) :
        \/ At(pattern, i) \in {"*", "?"}
        \/ At(pattern, i) = "[" /\ findCharClassEnd(pattern, i) >= 0

\* patternHasCharClass: at least one closed "[...]" class.
patternHasCharClass(pattern) ==
    \E i \in 0..(Len(pattern) - 1) :
        At(pattern, i) = "[" /\ findCharClassEnd(pattern, i) >= 0

\* canUseSimplePathSegments: no "**" and no character class.
canUseSimplePathSegments(pattern) ==
    /\ pattern # <<>>
    /\ ~Contains(pattern, <<"*", "*">>)
    /\ ~patternHasCharClass(pattern)

\* newSegmentPattern / compilePathSegments
newSegmentPattern(pattern) ==
    [text |-> pattern, wildcard |-> \E i \in 1..Len(pattern) : pattern[i] \in {"*", "?"}]

NoSegment == [text |-> <<>>, wildcard |-> FALSE]

compilePathSegments(pattern) ==
    LET parts == Split(pattern)
    IN [i \in 1..Len(parts) |-> newSegmentPattern(parts[i])]

-----------------------------------------------------------------------------
(* pattern.go: translation of a glob to the source of a regular            *)
(* expression, as the sequence of the bytes the strings.Builder receives.  *)

\* regexEscapeByte: string(c), after a backslash when the byte is a regexp
\* meta.  string(c) is the encoding of the rune with the number of the byte:
\* the byte itself in ASCII, two bytes from 0x80 on.
regexEscapeByte(c) ==
    IF c \in {".", "+", "(", ")", "|", "{", "}", "[", "]", "^", "$", "\\"}
    THEN <<"\\">> \o RuneString(Code(c))
    ELSE RuneString(Code(c))

\* The loop at the end of appendCharClassRegex: bytes idx..end-1 of the
\* class, each backslash doubled.
RECURSIVE classBytes(_, _, _)
classBytes(pat, idx, end) ==
    IF idx >= end THEN <<>>
    ELSE (IF At(pat, idx) = "\\" THEN <<"\\", "\\">> ELSE <<At(pat, idx)>>)
         \o classBytes(pat, idx + 1, end)

\* appendCharClassRegex: (next, ok) and the text appended for the class
\* opened at start: "[", "^" for a leading "!" or "\^" for a leading "^", a
\* leading "]" as it is, the other bytes, "]".
appendCharClassRegex(pat, start) ==
    LET written(end) ==
            LET i1 == start + 1
                bang == i1 < end /\ At(pat, i1) = "!"
                caret == ~bang /\ i1 < end /\ At(pat, i1) = "^"
                i2 == IF bang \/ caret THEN i1 + 1 ELSE i1
                bracket == i2 < end /\ At(pat, i2) = "]"
                i3 == IF bracket THEN i2 + 1 ELSE i2
            IN <<"[">>
               \o (IF bang THEN <<"^">> ELSE IF caret THEN <<"\\", "^">> ELSE <<>>)
               \o (IF bracket THEN <<"]">> ELSE <<>>)
               \o classBytes(pat, i3, end)
               \o <<"]">>
        closedAt(end) ==
            IF end < 0 THEN [next |-> start, ok |-> FALSE, text |-> <<>>]
            ELSE [next |-> end, ok |-> TRUE, text |-> written(end)]
    IN closedAt(findCharClassEnd(pat, start))

\* The pieces the two translations write for the glob operators.
ReDirs == <<"(", "?", ":", ".", "*", "/", ")", "?">>   \* (?:.*/)?
ReAnyPath == <<".", "*">>                               \* .*
ReStar == <<"[", "^", "/", "]", "*">>                   \* [^/]*
ReOne == <<"[", "^", "/", "]">>                         \* [^/]

\* globToRegexPath, from byte i on.
RECURSIVE globToRegexPathFrom(_, _)
globToRegexPathFrom(pat, i) ==
    LET class(c) ==
            IF c.ok THEN c.text \o globToRegexPathFrom(pat, c.next + 1)
            ELSE IF At(pat, i) = "*"
                 THEN IF i + 1 < Len(pat) /\ At(pat, i + 1) = "*"
                      THEN ReAnyPath \o globToRegexPathFrom(pat, i + 2)
                      ELSE ReStar \o globToRegexPathFrom(pat, i + 1)
            ELSE IF At(pat, i) = "?" THEN ReOne \o globToRegexPathFrom(pat, i + 1)
            ELSE regexEscapeByte(At(pat, i)) \o globToRegexPathFrom(pat, i + 1)
    IN IF i >= Len(pat) THEN <<>>
       ELSE IF /\ At(pat, i) = "*"
               /\ i + 2 < Len(pat)
               /\ At(pat, i + 1) = "*"
               /\ At(pat, i + 2) = "/"
            THEN ReDirs \o globToRegexPathFrom(pat, i + 3)
       ELSE class(appendCharClassRegex(pat, i))

globToRegexPath(pat) == globToRegexPathFrom(pat, 0)

\* globToRegexComponent, from byte i on: "**" is "*" inside one component.
RECURSIVE globToRegexComponentFrom(_, _)
globToRegexComponentFrom(pat, i) ==
    LET class(c) ==
            IF c.ok THEN c.text \o globToRegexComponentFrom(pat, c.next + 1)
            ELSE IF At(pat, i) = "*"
                 THEN IF i + 1 < Len(pat) /\ At(pat, i + 1) = "*"
                      THEN ReStar \o globToRegexComponentFrom(pat, i + 2)
                      ELSE ReStar \o globToRegexComponentFrom(pat, i + 1)
            ELSE IF At(pat, i) = "?" THEN ReOne \o globToRegexComponentFrom(pat, i + 1)
            ELSE regexEscapeByte(At(pat, i)) \o globToRegexComponentFrom(pat, i + 1)
    IN IF i >= Len(pat) THEN <<>>
       ELSE class(appendCharClassRegex(pat, i))

globToRegexComponent(pat) == globToRegexComponentFrom(pat, 0)

-----------------------------------------------------------------------------
(* The regexp package of Go (regexp.Compile, Regexp.MatchString) on the    *)
(* sources compileRule builds: the parser of regexp/syntax with the Perl   *)
(* flags, as the stack machine it is, and matching by the set of positions *)
(* a match can end at.  The source and the input are read by runes: a      *)
(* literal and the ends of a range are the runes decoded from the bytes,   *)
(* bytes that are no UTF-8 are an error in the source and U+FFFD in the    *)
(* input.  Case folding is that of ASCII; no source of compileRule sets    *)
(* (?i).  In the sources globToRegexPath and globToRegexComponent write, a *)
(* backslash is followed by a punctuation byte, so the escapes by letters  *)
(* and digits (\d, \pL, \x41, \Q) have no reader here and are errors.     *)
(* The limits of the parser on the size of the program and on the nesting  *)
(* depth (1000) need sources of thousands of bytes and are left out.       *)

InRanges(n, ranges) == \E r \in ranges : r[1] <= n /\ n <= r[2]

IsDigitByte(c) == InRanges(Code(c), {<<48, 57>>})
IsWordByte(c) == InRanges(Code(c), {<<48, 57>>, <<65, 90>>, <<97, 122>>, <<95, 95>>})
IsPunctByte(c) ==
    /\ Code(c) < 128
    /\ ~InRanges(Code(c), {<<48, 57>>, <<65, 90>>, <<97, 122>>})

\* The other case of the rune of an ASCII letter, the rune itself otherwise.
SwapCase(r) ==
    IF r \in 65..90 THEN r + 32
    ELSE IF r \in 97..122 THEN r - 32
    ELSE r

\* posixGroup of regexp/syntax: the ranges of [:name:], by name.
PosixGroup ==
    (<<"a", "l", "n", "u", "m">> :> {<<48, 57>>, <<65, 90>>, <<97, 122>>})
    @@ (<<"a", "l", "p", "h", "a">> :> {<<65, 90>>, <<97, 122>>})
    @@ (<<"a", "s", "c", "i", "i">> :> {<<0, 127>>})
    @@ (<<"b", "l", "a", "n", "k">> :> {<<9, 9>>, <<32, 32>>})
    @@ (<<"c", "n", "t", "r", "l">> :> {<<0, 31>>, <<127, 127>>})
    @@ (<<"d", "i", "g", "i", "t">> :> {<<48, 57>>})
    @@ (<<"g", "r", "a", "p", "h">> :> {<<33, 126>>})
    @@ (<<"l", "o", "w", "e", "r">> :> {<<97, 122>>})
    @@ (<<"p", "r", "i", "n", "t">> :> {<<32, 126>>})
    @@ (<<"p", "u", "n", "c", "t">> :> {<<33, 47>>, <<58, 64>>, <<91, 96>>, <<123, 126>>})
    @@ (<<"s", "p", "a", "c", "e">> :> {<<9, 13>>, <<32, 32>>})
    @@ (<<"u", "p", "p", "e", "r">> :> {<<65, 90>>})
    @@ (<<"w", "o", "r", "d">> :> {<<48, 57>>, <<65, 90>>, <<97, 122>>, <<95, 95>>})
    @@ (<<"x", "d", "i", "g", "i", "t">> :> {<<48, 57>>, <<65, 70>>, <<97, 102>>})

\* The flags a group can change: (?i), (?m), (?s).  regexp.Compile starts
\* from the Perl flags: one line, "." without "\n", classes with "\n".
PerlFlags == [fold |-> FALSE, multi |-> FALSE, dotNL |-> FALSE]

\* The parser: the next byte i, the stack of expressions and of the pseudo
\* operators "(" and "|", the flags, whether the last piece was a repetition
\* operator, and whether the parse has failed.
ReStart == [i |-> 0, stack |-> <<>>, flags |-> PerlFlags, last |-> FALSE, err |-> FALSE]

ReFail(st) == [st EXCEPT !.err = TRUE]

\* p.op / p.push of one expression, which moves on to byte next.
RePush(st, re, next) ==
    [st EXCEPT !.i = next, !.stack = Append(@, re), !.last = FALSE]

IsPseudo(re) == re.op \in {"(", "|"}

\* The index of the topmost pseudo operator of the stack, 0 without one.
TopPseudo(stack) ==
    LET ks == {k \in 1..Len(stack) : IsPseudo(stack[k])}
    IN IF ks = {} THEN 0 ELSE CHOOSE k \in ks : \A j \in ks : k >= j

\* parser.concat: what is above the topmost pseudo operator becomes one
\* concatenation (the empty match when there is nothing).
concat(stack) ==
    LET k == TopPseudo(stack)
        subs == SubSeq(stack, k + 1, Len(stack))
    IN Append(SubSeq(stack, 1, k),
              IF subs = <<>> THEN [op |-> "empty"] ELSE [op |-> "cat", subs |-> subs])

\* parser.alternate: what is above the topmost "(" becomes one alternation.
alternate(stack) ==
    LET k == TopPseudo(stack)
        subs == SubSeq(stack, k + 1, Len(stack))
    IN Append(SubSeq(stack, 1, k),
              IF subs = <<>> THEN [op |-> "nomatch"] ELSE [op |-> "alt", subs |-> subs])

\* parser.swapVerticalBar: a "|" right below the top goes above it.
swapVerticalBar(stack) ==
    LET n == Len(stack)
    IN IF n >= 2 /\ stack[n - 1].op = "|"
       THEN [ok |-> TRUE,
             stack |-> SubSeq(stack, 1, n - 2) \o <<stack[n], stack[n - 1]>>]
       ELSE [ok |-> FALSE, stack |-> stack]

\* The end of an alternation, at ")" and at the end of the source: concat,
\* the "|" is dropped, alternate.
closeAlternation(stack) ==
    LET swapped(sw) ==
            alternate(IF sw.ok THEN SubSeq(sw.stack, 1, Len(sw.stack) - 1) ELSE sw.stack)
    IN swapped(swapVerticalBar(concat(stack)))

\* parser.parseVerticalBar
parseVerticalBar(st) ==
    LET swapped(sw) == IF sw.ok THEN sw.stack ELSE Append(sw.stack, [op |-> "|"])
    IN [st EXCEPT !.i = @ + 1, !.last = FALSE,
                  !.stack = swapped(swapVerticalBar(concat(st.stack)))]

\* parser.parseRightParen: the group is closed and the flags it was opened
\* under come back.
parseRightParen(st) ==
    LET closed(stack) ==
            LET n == Len(stack)
            IN IF n < 2 THEN ReFail(st)
               ELSE IF stack[n - 1].op # "(" THEN ReFail(st)
               ELSE [st EXCEPT !.i = @ + 1, !.last = FALSE,
                               !.flags = stack[n - 1].flags,
                               !.stack = Append(SubSeq(stack, 1, n - 2), stack[n])]
    IN closed(closeAlternation(st.stack))

\* isValidCaptureName
isValidCaptureName(name) ==
    name # <<>> /\ \A k \in 1..Len(name) : IsWordByte(name[k])

\* The flag loop of parsePerlFlags from byte t on: i, m, s, U set a flag, or
\* clear it after "-"; ":" opens a group, ")" ends the flags.
RECURSIVE perlFlagLoop(_, _, _, _, _, _)
perlFlagLoop(expr, st, t, flags, negated, sawFlag) ==
    IF t >= Len(expr) THEN ReFail(st)
    ELSE LET c == At(expr, t)
         IN CASE c = "i" ->
                    perlFlagLoop(expr, st, t + 1, [flags EXCEPT !.fold = ~negated],
                                 negated, TRUE)
              [] c = "m" ->
                    perlFlagLoop(expr, st, t + 1, [flags EXCEPT !.multi = ~negated],
                                 negated, TRUE)
              [] c = "s" ->
                    perlFlagLoop(expr, st, t + 1, [flags EXCEPT !.dotNL = ~negated],
                                 negated, TRUE)
              [] c = "U" -> perlFlagLoop(expr, st, t + 1, flags, negated, TRUE)
              [] c = "-" ->
                    IF negated THEN ReFail(st)
                    ELSE perlFlagLoop(expr, st, t + 1, flags, TRUE, FALSE)
              [] c \in {":", ")"} ->
                    IF negated /\ ~sawFlag THEN ReFail(st)
                    ELSE [st EXCEPT
                             !.i = t + 1, !.last = FALSE, !.flags = flags,
                             !.stack = IF c = ":"
                                       THEN Append(@, [op |-> "(", flags |-> st.flags])
                                       ELSE @]
              [] OTHER -> ReFail(st)

\* parser.parsePerlFlags at "(?": a named group (?P<name> or (?<name>, or
\* flags.
parsePerlFlags(expr, st) ==
    LET t == st.i
        startsWithP == Len(expr) - t > 4 /\ At(expr, t + 2) = "P" /\ At(expr, t + 3) = "<"
        startsWithName == Len(expr) - t > 3 /\ At(expr, t + 2) = "<"
        named(end, exprStartPos) ==
            IF end < 0 THEN ReFail(st)
            ELSE IF ~isValidCaptureName(Slice(expr, t + exprStartPos, t + end))
                 THEN ReFail(st)
            ELSE RePush(st, [op |-> "(", flags |-> st.flags], t + end + 1)
    IN IF startsWithP \/ startsWithName
       THEN named(IndexByte(SliceFrom(expr, t), ">"), IF startsWithName THEN 3 ELSE 4)
       ELSE perlFlagLoop(expr, st, t + 2, st.flags, FALSE, FALSE)

\* parser.parseInt from byte t on: (ok, value, rest); no leading zero, and -1
\* for a value of 10^8 or more.
RECURSIVE intValue(_, _, _, _)
intValue(expr, i, stop, n) ==
    IF i >= stop THEN n
    ELSE IF n >= 100000000 THEN -1
    ELSE intValue(expr, i + 1, stop, n * 10 + (Code(At(expr, i)) - 48))

parseInt(expr, t) ==
    LET isDigit(k) == k < Len(expr) /\ IsDigitByte(At(expr, k))
        stop == CHOOSE k \in t..Len(expr) :
                    ~isDigit(k) /\ \A j \in t..(k - 1) : isDigit(j)
    IN IF ~isDigit(t) THEN [ok |-> FALSE, n |-> 0, rest |-> t]
       ELSE IF isDigit(t + 1) /\ At(expr, t) = "0" THEN [ok |-> FALSE, n |-> 0, rest |-> t]
       ELSE [ok |-> TRUE, n |-> intValue(expr, t, stop, 0), rest |-> stop]

\* parser.parseRepeat at "{": (ok, min, max, rest) of {n}, {n,} and {n,m}.
parseRepeat(expr, t) ==
    LET no == [ok |-> FALSE, min |-> 0, max |-> 0, rest |-> t]
        closing(min, max, k) ==
            IF k >= Len(expr) \/ At(expr, k) # "}" THEN no
            ELSE [ok |-> TRUE, min |-> min, max |-> max, rest |-> k + 1]
        afterMax(min, x) ==
            IF ~x.ok THEN no
            ELSE closing(IF x.n < 0 THEN -1 ELSE min, x.n, x.rest)
        afterMin(m) ==
            IF ~m.ok THEN no
            ELSE IF m.rest >= Len(expr) THEN no
            ELSE IF At(expr, m.rest) # "," THEN closing(m.n, m.n, m.rest)
            ELSE IF m.rest + 1 >= Len(expr) THEN no
            ELSE IF At(expr, m.rest + 1) = "}" THEN closing(m.n, -1, m.rest + 1)
            ELSE afterMax(m.n, parseInt(expr, m.rest + 1))
    IN afterMin(parseInt(expr, t + 1))

\* The expressions right below an expression.
ReSubs(re) ==
    IF re.op \in {"cat", "alt"} THEN {re.subs[k] : k \in 1..Len(re.subs)}
    ELSE IF re.op \in {"star", "plus", "quest", "repeat"} THEN {re.sub}
    ELSE {}

\* repeatIsValid: no nest of counted repetitions multiplies to more than n.
RECURSIVE repeatIsValid(_, _)
repeatIsValid(re, n) ==
    LET m == IF re.op # "repeat" THEN 0
             ELSE IF re.max < 0 THEN re.min ELSE re.max
    IN IF re.op = "repeat" /\ re.max = 0 THEN TRUE
       ELSE IF m > n THEN FALSE
       ELSE \A sub \in ReSubs(re) : repeatIsValid(sub, IF m > 0 THEN n \div m ELSE n)

\* parser.repeat: the operator op, read up to byte after, is put on the top
\* of the stack: a "?" behind it makes it lazy, and an operator right behind
\* an operator, or one with nothing to repeat, is an error.
repeat(expr, st, op, min, max, after) ==
    LET n == Len(st.stack)
        re == [op |-> op, sub |-> st.stack[n], min |-> min, max |-> max]
    IN IF st.last THEN ReFail(st)
       ELSE IF n = 0 THEN ReFail(st)
       ELSE IF IsPseudo(st.stack[n]) THEN ReFail(st)
       ELSE IF op = "repeat" /\ (min >= 2 \/ max >= 2) /\ ~repeatIsValid(re, 1000)
            THEN ReFail(st)
       ELSE [st EXCEPT !.i = IF after < Len(expr) /\ At(expr, after) = "?"
                               THEN after + 1 ELSE after,
                       !.last = TRUE,
                       !.stack = [@ EXCEPT ![n] = re]]

\* parser.parseEscape at the backslash of byte t: (ok, rune, rest).  The
\* rune behind the backslash stands for itself when it is ASCII and neither
\* a letter nor a digit.
parseEscape(expr, t) ==
    LET c == At(expr, t + 1)
        rune(n) == [ok |-> TRUE, r |-> n, rest |-> t + 2]
        no == [ok |-> FALSE, r |-> 0, rest |-> t]
    IN IF t + 1 >= Len(expr) THEN no
       ELSE IF IsPunctByte(c) THEN rune(Code(c))
       ELSE CASE c = "a" -> rune(7)
              [] c = "f" -> rune(12)
              [] c = "n" -> rune(10)
              [] c = "r" -> rune(13)
              [] c = "t" -> rune(9)
              [] c = "v" -> rune(11)
              [] OTHER -> no

\* nextRune: (ok, rune, rest) of the rune at byte t; bytes that are no UTF-8
\* are an error.
nextRune(expr, t) ==
    LET decoded(d) ==
            IF d.r = RuneError /\ d.size = 1 THEN [ok |-> FALSE, r |-> 0, rest |-> t]
            ELSE [ok |-> TRUE, r |-> d.r, rest |-> t + d.size]
    IN decoded(DecodeRune(expr, t))

\* parser.parseClassChar: one rune of a class, escaped or not.
parseClassChar(expr, t) ==
    IF t >= Len(expr) THEN [ok |-> FALSE, r |-> 0, rest |-> t]
    ELSE IF At(expr, t) = "\\" THEN parseEscape(expr, t)
    ELSE nextRune(expr, t)

\* The loop of parser.parseClass from byte t on.  A "]" closes the class
\* unless it is its first byte; "[:name:]" is a named class when ":]" is
\* found anywhere behind it, and an error when the name is not one; any
\* other rune is a member, or the low end of a range lo-hi when "-" and a
\* byte other than "]" follow it; a range whose high end is the lower rune
\* is an error.  An item is a set of ranges, negated for
\* "[:^name:]".
RECURSIVE classLoop(_, _, _, _, _, _)
classLoop(expr, st, t, first, negated, items) ==
    LET named(idx) ==
            LET name == Slice(expr, t + 2, t + 2 + idx)
                not == HasPrefix(name, <<"^">>)
                base == IF not THEN Tail(name) ELSE name
            IN IF base \notin DOMAIN PosixGroup THEN ReFail(st)
               ELSE classLoop(expr, st, t + idx + 4, FALSE, negated,
                              items \cup {[neg |-> not, ranges |-> PosixGroup[base]]})
        range(lo, hi) ==
            IF ~hi.ok THEN ReFail(st)
            ELSE IF hi.r < lo.r THEN ReFail(st)
            ELSE classLoop(expr, st, hi.rest, FALSE, negated,
                           items \cup {[neg |-> FALSE,
                                        ranges |-> {<<lo.r, hi.r>>}]})
        single(lo) ==
            IF ~lo.ok THEN ReFail(st)
            ELSE IF /\ lo.rest + 1 < Len(expr)
                    /\ At(expr, lo.rest) = "-"
                    /\ At(expr, lo.rest + 1) # "]"
                 THEN range(lo, parseClassChar(expr, lo.rest + 1))
            ELSE range(lo, lo)
    IN IF t < Len(expr) /\ At(expr, t) = "]" /\ ~first
       THEN RePush(st, [op |-> "class", neg |-> negated, fold |-> st.flags.fold,
                        items |-> items], t + 1)
       ELSE IF /\ Len(expr) - t > 2
               /\ At(expr, t) = "["
               /\ At(expr, t + 1) = ":"
               /\ Index(SliceFrom(expr, t + 2), <<":", "]">>) >= 0
            THEN named(Index(SliceFrom(expr, t + 2), <<":", "]">>))
       ELSE single(parseClassChar(expr, t))

\* parser.parseClass at "[": a "^" right behind it negates the class.
parseClass(expr, st) ==
    IF st.i + 1 < Len(expr) /\ At(expr, st.i + 1) = "^"
    THEN classLoop(expr, st, st.i + 2, TRUE, TRUE, {})
    ELSE classLoop(expr, st, st.i + 1, TRUE, FALSE, {})

\* One turn of the loop of syntax.Parse, at byte st.i.
parseStep(expr, st) ==
    LET t == st.i
        c == At(expr, t)
        counted(r) ==
            IF ~r.ok THEN RePush(st, [op |-> "lit", r |-> 123, fold |-> st.flags.fold], t + 1)
            ELSE IF \/ r.min < 0
                    \/ r.min > 1000
                    \/ r.max > 1000
                    \/ (r.max >= 0 /\ r.min > r.max)
                 THEN ReFail(st)
            ELSE repeat(expr, st, "repeat", r.min, r.max, r.rest)
        escaped(e) ==
            IF ~e.ok THEN ReFail(st)
            ELSE RePush(st, [op |-> "lit", r |-> e.r, fold |-> st.flags.fold], e.rest)
    IN CASE c = "(" ->
                IF t + 1 < Len(expr) /\ At(expr, t + 1) = "?" THEN parsePerlFlags(expr, st)
                ELSE RePush(st, [op |-> "(", flags |-> st.flags], t + 1)
         [] c = "|" -> parseVerticalBar(st)
         [] c = ")" -> parseRightParen(st)
         [] c = "^" -> RePush(st, [op |-> IF st.flags.multi THEN "bol" ELSE "bot"], t + 1)
         [] c = "$" -> RePush(st, [op |-> IF st.flags.multi THEN "eol" ELSE "eot"], t + 1)
         [] c = "." -> RePush(st, [op |-> "any", nl |-> st.flags.dotNL], t + 1)
         [] c = "[" -> parseClass(expr, st)
         [] c = "*" -> repeat(expr, st, "star", 0, 0, t + 1)
         [] c = "+" -> repeat(expr, st, "plus", 0, 0, t + 1)
         [] c = "?" -> repeat(expr, st, "quest", 0, 0, t + 1)
         [] c = "{" -> counted(parseRepeat(expr, t))
         [] c = "\\" -> escaped(parseEscape(expr, t))
         [] OTHER -> escaped(nextRune(expr, t))

RECURSIVE parseLoop(_, _)
parseLoop(expr, st) ==
    IF st.err \/ st.i >= Len(expr) THEN st ELSE parseLoop(expr, parseStep(expr, st))

\* A nil *regexp.Regexp, and regexp.Compile: the expression of the source, or
\* nil and an error.
NilRE == [valid |-> FALSE, prog |-> [op |-> "nomatch"]]

regexpCompile(expr) ==
    LET closed(stack) ==
            IF Len(stack) # 1 THEN NilRE ELSE [valid |-> TRUE, prog |-> stack[1]]
        finished(st) == IF st.err THEN NilRE ELSE closed(closeAlternation(st.stack))
    IN finished(parseLoop(expr, ReStart))

\* Whether a class has the rune r.
classHas(re, r) ==
    LET inItem(it) ==
            (\/ InRanges(r, it.ranges)
             \/ re.fold /\ InRanges(SwapCase(r), it.ranges)) # it.neg
    IN (\E it \in re.items : inItem(it)) # re.neg

\* Whether a literal, "." or a class takes the rune r.
RuneHit(re, r) ==
    CASE re.op = "lit" -> r = re.r \/ (re.fold /\ SwapCase(r) = re.r)
      [] re.op = "any" -> re.nl \/ r # 10
      [] re.op = "class" -> classHas(re, r)

\* The positions behind the rune d read at position j, when re takes it.
RuneStepAt(re, j, d) == IF RuneHit(re, d.r) THEN {j + d.size} ELSE {}

\* One rune of the input is taken from each position of I.
RuneSteps(re, s, I) ==
    UNION {RuneStepAt(re, j, DecodeRune(s, j)) : j \in {k \in I : k < Len(s)}}

\* The positions (0-based, between bytes) at which a match of re that starts
\* at a position of I can end.
RECURSIVE reEnds(_, _, _)
RECURSIVE reCat(_, _, _, _)
RECURSIVE reStar(_, _, _)
RECURSIVE reTimes(_, _, _, _)
RECURSIVE reUpTo(_, _, _, _)

reEnds(re, s, I) ==
    CASE re.op \in {"lit", "any", "class"} -> RuneSteps(re, s, I)
      [] re.op = "bot" -> I \cap {0}
      [] re.op = "eot" -> I \cap {Len(s)}
      [] re.op = "bol" -> {i \in I : i = 0 \/ At(s, i - 1) = "\n"}
      [] re.op = "eol" -> {i \in I : i = Len(s) \/ At(s, i) = "\n"}
      [] re.op = "empty" -> I
      [] re.op = "nomatch" -> {}
      [] re.op = "cat" -> reCat(re.subs, 1, s, I)
      [] re.op = "alt" -> UNION {reEnds(re.subs[k], s, I) : k \in 1..Len(re.subs)}
      [] re.op = "star" -> reStar(re.sub, s, I)
      [] re.op = "plus" -> reStar(re.sub, s, reEnds(re.sub, s, I))
      [] re.op = "quest" -> I \cup reEnds(re.sub, s, I)
      [] re.op = "repeat" ->
             IF re.max < 0 THEN reStar(re.sub, s, reTimes(re.sub, s, I, re.min))
             ELSE reUpTo(re.sub, s, reTimes(re.sub, s, I, re.min), re.max - re.min)

reCat(subs, k, s, I) ==
    IF k > Len(subs) \/ I = {} THEN I ELSE reCat(subs, k + 1, s, reEnds(subs[k], s, I))

reStar(re, s, I) ==
    LET more == I \cup reEnds(re, s, I)
    IN IF more = I THEN I ELSE reStar(re, s, more)

reTimes(re, s, I, n) ==
    IF n = 0 \/ I = {} THEN I ELSE reTimes(re, s, reEnds(re, s, I), n - 1)

reUpTo(re, s, I, n) ==
    LET more == I \cup reEnds(re, s, I)
    IN IF n = 0 \/ more = I THEN I ELSE reUpTo(re, s, more, n - 1)

\* The positions a match is tried from: byte 0, and the end of each rune read
\* from there.
RECURSIVE RuneStarts(_, _)
RuneStarts(s, i) ==
    IF i >= Len(s) THEN {i} ELSE {i} \cup RuneStarts(s, i + DecodeRune(s, i).size)

\* Regexp.MatchString: a match may start at any rune and end anywhere.
MatchString(re, s) == reEnds(re.prog, s, RuneStarts(s, 0)) # {}

-----------------------------------------------------------------------------
(* pattern.go: the hand-rolled matchers.                                   *)

\* matchSimpleWildcard: the two-pointer loop with one remembered star.
RECURSIVE wildcardLoop(_, _, _, _, _, _)
wildcardLoop(pattern, input, pIdx, sIdx, starPattern, starInput) ==
    IF sIdx < Len(input)
    THEN IF pIdx < Len(pattern) /\ (At(pattern, pIdx) = "?" \/ At(pattern, pIdx) = At(input, sIdx))
         THEN wildcardLoop(pattern, input, pIdx + 1, sIdx + 1, starPattern, starInput)
         ELSE IF pIdx < Len(pattern) /\ At(pattern, pIdx) = "*"
         THEN wildcardLoop(pattern, input, pIdx + 1, sIdx, pIdx, sIdx)
         ELSE IF starPattern >= 0
         THEN wildcardLoop(pattern, input, starPattern + 1, starInput + 1,
                           starPattern, starInput + 1)
         ELSE FALSE
    ELSE \A k \in pIdx..(Len(pattern) - 1) : At(pattern, k) = "*"

matchSimpleWildcard(pattern, input) == wildcardLoop(pattern, input, 0, 0, -1, 0)

\* matchSegmentPattern
matchSegmentPattern(pattern, segment) ==
    IF ~pattern.wildcard THEN segment = pattern.text
    ELSE matchSimpleWildcard(pattern.text, segment)

\* The index of the first "/" at or after index, or len(candidate).
SegmentEnd(candidate, index) ==
    LET stops == {e \in index..Len(candidate) : e = Len(candidate) \/ At(candidate, e) = "/"}
    IN CHOOSE e \in stops : \A f \in stops : e <= f

\* matchPathSegmentsAt: (end, ok) of the segments matched from byte start.
RECURSIVE segmentsLoop(_, _, _, _)
segmentsLoop(pattern, candidate, seg, index) ==
    LET end == SegmentEnd(candidate, index)
    IN IF end = index THEN [end |-> 0, ok |-> FALSE]
       ELSE IF ~matchSegmentPattern(pattern[seg], Slice(candidate, index, end))
            THEN [end |-> 0, ok |-> FALSE]
       ELSE IF seg = Len(pattern) THEN [end |-> end, ok |-> TRUE]
       ELSE IF end >= Len(candidate) \/ At(candidate, end) # "/"
            THEN [end |-> 0, ok |-> FALSE]
       ELSE segmentsLoop(pattern, candidate, seg + 1, end + 1)

matchPathSegmentsAt(pattern, candidate, start) ==
    IF start < 0 \/ start >= Len(candidate) THEN [end |-> 0, ok |-> FALSE]
    ELSE IF Len(pattern) = 0 THEN [end |-> start, ok |-> TRUE]
    ELSE segmentsLoop(pattern, candidate, 1, start)

\* matchPathSegmentsUnanchored: retry from every segment boundary.
RECURSIVE matchPathSegmentsUnanchoredFrom(_, _, _, _)
matchPathSegmentsUnanchoredFrom(pattern, candidate, dirOnly, start) ==
    LET m == matchPathSegmentsAt(pattern, candidate, start)
        terminal == IF dirOnly
                    THEN m.end = Len(candidate)
                         \/ (m.end < Len(candidate) /\ At(candidate, m.end) = "/")
                    ELSE m.end = Len(candidate)
        nextSlash == IndexByte(SliceFrom(candidate, start), "/")
    IN IF m.ok /\ terminal THEN TRUE
       ELSE IF nextSlash < 0 THEN FALSE
       ELSE matchPathSegmentsUnanchoredFrom(pattern, candidate, dirOnly, start + nextSlash + 1)

matchPathSegmentsUnanchored(pattern, candidate, dirOnly) ==
    matchPathSegmentsUnanchoredFrom(pattern, candidate, dirOnly, 0)

\* matchPathSegments
matchPathSegments(pattern, candidate, anchored, dirOnly) ==
    IF Len(pattern) = 0 \/ candidate = <<>> THEN FALSE
    ELSE IF anchored
         THEN LET m == matchPathSegmentsAt(pattern, candidate, 0)
              IN IF ~m.ok THEN FALSE
                 ELSE IF dirOnly
                      THEN m.end = Len(candidate)
                           \/ (m.end < Len(candidate) /\ At(candidate, m.end) = "/")
                 ELSE m.end = Len(candidate)
    ELSE matchPathSegmentsUnanchored(pattern, candidate, dirOnly)

\* matchPathPrefixDoubleStar: the prefix of "prefix/**" and one more component.
RECURSIVE prefixDoubleStarFrom(_, _, _)
prefixDoubleStarFrom(prefix, candidate, start) ==
    LET m == matchPathSegmentsAt(prefix, candidate, start)
        nextSlash == IndexByte(SliceFrom(candidate, start), "/")
    IN IF m.ok /\ m.end < Len(candidate) /\ At(candidate, m.end) = "/" THEN TRUE
       ELSE IF nextSlash < 0 THEN FALSE
       ELSE prefixDoubleStarFrom(prefix, candidate, start + nextSlash + 1)

\* A trailing "/**" that also accepts the directory of the prefix itself.
matchPathPrefixOrDirectory(prefix, candidate, anchored) ==
    IF Len(prefix) = 0 \/ candidate = <<>> THEN FALSE
    ELSE IF anchored
         THEN LET m == matchPathSegmentsAt(prefix, candidate, 0)
              IN m.ok /\ (m.end = Len(candidate) \/ At(candidate, m.end) = "/")
    ELSE prefixDoubleStarFrom(prefix, candidate, 0)

matchPathPrefixDoubleStar(prefix, candidate, anchored) ==
    IF Len(prefix) = 0 \/ candidate = <<>> THEN FALSE
    ELSE IF anchored
         THEN LET m == matchPathSegmentsAt(prefix, candidate, 0)
              IN m.ok /\ m.end < Len(candidate) /\ At(candidate, m.end) = "/"
    ELSE prefixDoubleStarFrom(prefix, candidate, 0)

\* containsDirPath: pattern as a run of whole components of candidate; an
\* occurrence that ends the candidate counts only for a directory.
RECURSIVE containsDirPathFrom(_, _, _, _)
containsDirPathFrom(pattern, candidate, dir, start) ==
    IF start >= Len(candidate) THEN FALSE
    ELSE LET found == Index(SliceFrom(candidate, start), pattern)
             idx == found + start
             beforeOK == idx = 0 \/ At(candidate, idx - 1) = "/"
             after == idx + Len(pattern)
             afterOK == after = Len(candidate) \/ At(candidate, after) = "/"
         IN IF found < 0 THEN FALSE
            ELSE IF beforeOK /\ afterOK /\ (after < Len(candidate) \/ dir) THEN TRUE
            ELSE containsDirPathFrom(pattern, candidate, dir, idx + 1)

containsDirPath(pattern, candidate, dir) == containsDirPathFrom(pattern, candidate, dir, 0)

\* matchExactPathRule
matchExactPathRule(pattern, candidate, dir, anchored, dirOnly) ==
    IF pattern = <<>> \/ candidate = <<>> THEN FALSE
    ELSE IF anchored
         THEN IF ~dirOnly THEN candidate = pattern
              ELSE candidate = pattern \/ HasPrefix(candidate, pattern \o <<"/">>)
    ELSE IF ~dirOnly
         THEN candidate = pattern \/ HasSuffix(candidate, <<"/">> \o pattern)
    ELSE containsDirPath(pattern, candidate, dir)

\* The scan shared by matchDirOnlyComponentExact, matchDirOnlyComponentPattern
\* and matchDirOnlyComponent: every non-empty component from byte start on is
\* offered to Hit, except the last one of a file path, where the scan stops.
RECURSIVE dirOnlyScan(_, _, _, _)
dirOnlyScan(Hit(_), candidate, dir, start) ==
    IF start > Len(candidate) THEN FALSE
    ELSE LET i == SegmentEnd(candidate, start)
         IN IF i > start /\ i = Len(candidate) /\ ~dir THEN FALSE
            ELSE IF i > start /\ Hit(Slice(candidate, start, i)) THEN TRUE
            ELSE dirOnlyScan(Hit, candidate, dir, i + 1)

matchDirOnlyComponentExact(component, candidate, dir) ==
    IF component = <<>> \/ candidate = <<>> THEN FALSE
    ELSE LET Hit(c) == c = component
         IN dirOnlyScan(Hit, candidate, dir, 0)

matchDirOnlyComponentPattern(pattern, candidate, dir) ==
    IF pattern.text = <<>> \/ candidate = <<>> THEN FALSE
    ELSE LET Hit(c) == matchSegmentPattern(pattern, c)
         IN dirOnlyScan(Hit, candidate, dir, 0)

matchDirOnlyComponent(re, candidate, dir) ==
    IF ~re.valid \/ candidate = <<>> THEN FALSE
    ELSE LET Hit(c) == MatchString(re, c)
         IN dirOnlyScan(Hit, candidate, dir, 0)

\* pathBase: the final component.
pathBase(p) ==
    LET i == LastIndexByte(p, "/")
    IN IF i >= 0 THEN SliceFrom(p, i + 1) ELSE p

-----------------------------------------------------------------------------
(* pattern.go: compileRule and compiledRule.matches.  A compiled rule      *)
(* keeps the fields of the Go struct; matches selects the strategy by the  *)
(* field that is set, in the order of the Go code.                         *)

\* Action.valid
valid(a) == a \in {"Exclude", "Include"}

NoCompiledRule ==
    [componentRE |-> NilRE, componentExact |-> <<>>, componentGlob |-> NoSegment,
     pathExact |-> <<>>, pathSegments |-> <<>>, pathPrefixSegments |-> <<>>,
     pathRE |-> NilRE, pathDirRE |-> NilRE,
     source |-> [Pattern |-> <<>>, Action |-> "Unknown"],
     anchored |-> FALSE, dirOnly |-> FALSE, hasSlash |-> FALSE]

\* The text compileRule puts around the translated pattern.
ReAnywhere == <<"(", "?", ":", "^", "|", ".", "*", "/", ")">>       \* (?:^|.*/)
ReDirSuffix == <<"(", "?", ":", "/", ".", "*", ")", "?", "$">>      \* (?:/.*)?$

\* The strategy compileRule chooses for a rule: the compiled rule with the
\* field of a cheap strategy set, or the error of the rule; when no cheap
\* strategy fits, the expression the code hands to regexp.Compile and the
\* field of the compiled rule its result is stored in.
compileStrategy(rule, caseInsensitive) ==
    LET done(cr) == [cr |-> cr, err |-> "nil", field |-> "", expr |-> <<>>]
        failed(e) == [cr |-> NoCompiledRule, err |-> e, field |-> "", expr |-> <<>>]
        \* the expression the code hands to regexp.Compile when no cheaper
        \* strategy fits, and the field of cr its result is stored in
        fallback(cr, pattern, rePrefix) ==
            IF ~cr.hasSlash
            THEN [cr |-> cr, err |-> "nil", field |-> "componentRE",
                  expr |-> <<"^">> \o globToRegexComponent(pattern) \o <<"$">>]
            ELSE [cr |-> cr, err |-> "nil",
                  field |-> IF cr.dirOnly THEN "pathDirRE" ELSE "pathRE",
                  expr |-> rePrefix \o globToRegexPath(pattern)
                               \o (IF cr.dirOnly THEN ReDirSuffix ELSE <<"$">>)]
        \* the matching strategy chosen for the trimmed pattern, stored in cr
        strategy(cr, pattern, hasMeta, prefix, rePrefix) ==
            IF ~cr.hasSlash /\ ~hasMeta
            THEN done([cr EXCEPT !.componentExact = pattern])
            ELSE IF ~cr.hasSlash /\ ~patternHasCharClass(pattern)
            THEN done([cr EXCEPT !.componentGlob = newSegmentPattern(pattern)])
            ELSE IF cr.hasSlash /\ ~hasMeta
            THEN done([cr EXCEPT !.pathExact = pattern])
            ELSE IF /\ cr.hasSlash
                    /\ HasSuffix(pattern, <<"/", "*", "*">>)
                    /\ prefix # <<>>
                    /\ canUseSimplePathSegments(prefix)
            THEN done([cr EXCEPT !.pathPrefixSegments = compilePathSegments(prefix)])
            ELSE IF cr.hasSlash /\ canUseSimplePathSegments(pattern)
            THEN done([cr EXCEPT !.pathSegments = compilePathSegments(pattern)])
            ELSE fallback(cr, pattern, rePrefix)
        \* the flags of the normalized pattern n1 and of its trimmed form
        flagged(n1, anch, pattern) ==
            IF n1 = <<>> \/ pattern = <<>>
            THEN failed("ErrInvalidPattern")
            ELSE strategy([NoCompiledRule EXCEPT
                              !.source = rule, !.anchored = anch,
                              !.dirOnly = HasSuffix(n1, <<"/">>),
                              !.hasSlash = Contains(pattern, <<"/">>) \/ anch],
                          pattern, patternHasGlobMeta(pattern),
                          TrimSuffix(pattern, <<"/", "*", "*">>),
                          IF anch THEN <<"^">> ELSE ReAnywhere)
        trimmed(n1) ==
            flagged(n1, HasPrefix(n1, <<"/">>),
                    Trim(TrimSuffix(TrimPrefix(n1, <<"/">>), <<"/">>), {"/"}))
        lowered(n0) == trimmed(IF caseInsensitive THEN asciiLower(n0) ELSE n0)
    IN IF ~valid(rule.Action) THEN failed("ErrInvalidRule")
       ELSE lowered(normalizePattern(rule.Pattern))

\* compileRule: (compiled rule, error) with the cheapest strategy.  For the
\* fallback strategies the expression is compiled, and the rule fails with
\* ErrInvalidPattern when regexp.Compile reports an error.
compileRule(rule, caseInsensitive) ==
    LET compiled(s, re) ==
            IF s.err # "nil" \/ s.field = "" THEN [cr |-> s.cr, err |-> s.err]
            ELSE IF ~re.valid THEN [cr |-> NoCompiledRule, err |-> "ErrInvalidPattern"]
            ELSE [cr |-> [s.cr EXCEPT ![s.field] = re], err |-> "nil"]
    IN compiled(compileStrategy(rule, caseInsensitive),
                regexpCompile(compileStrategy(rule, caseInsensitive).expr))

\* compiledRule.matches: whether the rule matches the normalized candidate.
matches(r, candidate, dir) ==
    IF candidate = <<>> THEN FALSE
    ELSE IF r.hasSlash
         THEN IF r.pathExact # <<>>
              THEN matchExactPathRule(r.pathExact, candidate, dir, r.anchored, r.dirOnly)
              ELSE IF Len(r.pathPrefixSegments) > 0
              THEN matchPathPrefixDoubleStar(r.pathPrefixSegments, candidate, r.anchored)
              ELSE IF Len(r.pathSegments) > 0
              THEN matchPathSegments(r.pathSegments, candidate, r.anchored, r.dirOnly)
              ELSE IF r.dirOnly
              THEN r.pathDirRE.valid /\ MatchString(r.pathDirRE, candidate)
              ELSE r.pathRE.valid /\ MatchString(r.pathRE, candidate)
    ELSE IF r.componentExact # <<>>
         THEN IF ~r.dirOnly THEN pathBase(candidate) = r.componentExact
              ELSE matchDirOnlyComponentExact(r.componentExact, candidate, dir)
    ELSE IF r.componentGlob.text # <<>>
         THEN IF ~r.dirOnly THEN matchSegmentPattern(r.componentGlob, pathBase(candidate))
              ELSE matchDirOnlyComponentPattern(r.componentGlob, candidate, dir)
    ELSE IF ~r.componentRE.valid THEN FALSE
    ELSE IF ~r.dirOnly THEN MatchString(r.componentRE, pathBase(candidate))
    ELSE matchDirOnlyComponent(r.componentRE, candidate, dir)

-----------------------------------------------------------------------------
(* model.go and the matcher (NewMatcher, Matcher.Decide).                  *)

\* MatcherOptions.applyDefaults
applyDefaults(o) ==
    IF ~valid(o.DefaultAction) THEN [o EXCEPT !.DefaultAction = "Include"] ELSE o

\* A compile loop that goes on after a failure and reports the error of the
\* last rule that fails.
RECURSIVE compileAllLastError(_, _, _)
compileAllLastError(rs, caseInsensitive, acc) ==
    IF rs = <<>> THEN [compiled |-> acc, err |-> "nil"]
    ELSE LET failedHere(c, rest) ==
                 IF c.err = "nil" \/ rest.err # "nil" THEN rest
                 ELSE [compiled |-> <<>>, err |-> c.err]
             appended(c) ==
                 failedHere(c, compileAllLastError(Tail(rs), caseInsensitive,
                                                   Append(acc, c.cr)))
         IN appended(compileRule(Head(rs), caseInsensitive))

\* The compile loop of NewMatcher: the rules compiled so far, or the error of
\* the first rule that fails.
RECURSIVE compileAll(_, _, _)
compileAll(rs, caseInsensitive, acc) ==
    IF rs = <<>> THEN [compiled |-> acc, err |-> "nil"]
    ELSE LET appended(c) ==
                 IF c.err # "nil" THEN [compiled |-> <<>>, err |-> c.err]
                 ELSE compileAll(Tail(rs), caseInsensitive, Append(acc, c.cr))
         IN appended(compileRule(Head(rs), caseInsensitive))

\* A nil *Matcher.
NilMatcher == [nil |-> TRUE, compiled |-> <<>>, defaultAction |-> "Unknown",
               caseInsensitive |-> FALSE]

\* NewMatcher: (matcher, error).
NewMatcherOf(rs, o) ==
    LET built(d, c) ==
            IF c.err # "nil"
            THEN [m |-> NilMatcher, err |-> c.err]
            ELSE [m |-> [nil |-> FALSE, compiled |-> c.compiled,
                         defaultAction |-> d.DefaultAction,
                         caseInsensitive |-> d.CaseInsensitive],
                  err |-> "nil"]
    IN built(applyDefaults(o), compileAll(rs, applyDefaults(o).CaseInsensitive, <<>>))

\* A rule loop that stops at the first rule that matches.
RECURSIVE decideLoopFirstMatch(_, _, _, _, _)
decideLoopFirstMatch(compiled, candidate, dir, i, res) ==
    IF i > Len(compiled) THEN res
    ELSE IF ~matches(compiled[i], candidate, dir)
         THEN decideLoopFirstMatch(compiled, candidate, dir, i + 1, res)
    ELSE [Included |-> compiled[i].source.Action = "Include",
          Matched |-> TRUE, RuleIndex |-> i - 1]

\* The rule loop of Matcher.Decide: rules i..len are visited in order and every
\* match overwrites the three result fields (index i is the 0-based RuleIndex).
RECURSIVE decideLoop(_, _, _, _, _)
decideLoop(compiled, candidate, dir, i, res) ==
    IF i > Len(compiled) THEN res
    ELSE IF ~matches(compiled[i], candidate, dir)
         THEN decideLoop(compiled, candidate, dir, i + 1, res)
    ELSE decideLoop(compiled, candidate, dir, i + 1,
                    [Included |-> compiled[i].source.Action = "Include",
                     Matched |-> TRUE, RuleIndex |-> i - 1])

\* Matcher.Decide
MatcherDecide(m, p, dir) ==
    LET afterNormalize(c0) ==
            decideLoop(m.compiled, IF m.caseInsensitive THEN asciiLower(c0) ELSE c0,
                       dir, 1,
                       [Included |-> m.defaultAction = "Include", Matched |-> FALSE,
                        RuleIndex |-> -1])
    IN afterNormalize(normalizePath(p))

-----------------------------------------------------------------------------
(* ParseRules: the rules of a rules file.  A file is the sequence of the   *)
(* lines bufio.Scanner yields.                                             *)

\* strings.TrimRight(s, cutset) for a one-character cutset.
RECURSIVE TrimRight(_, _)
TrimRight(s, c) ==
    IF s # <<>> /\ s[Len(s)] = c THEN TrimRight(SubSeq(s, 1, Len(s) - 1), c) ELSE s

\* A trim that removes every trailing space and tab, escaped or not.
RECURSIVE trimTrailingSpacesAll(_)
trimTrailingSpacesAll(s) ==
    IF Len(s) > 0 /\ (s[Len(s)] = " " \/ s[Len(s)] = "\t")
    THEN trimTrailingSpacesAll(SubSeq(s, 1, Len(s) - 1))
    ELSE s

\* trimTrailingSpaces: removes trailing spaces unless escaped by "\".
RECURSIVE trimTrailingSpaces(_)
trimTrailingSpaces(s) ==
    IF Len(s) > 0 /\ (s[Len(s)] = " " \/ s[Len(s)] = "\t")
    THEN IF Len(s) >= 2 /\ s[Len(s) - 1] = "\\"
         THEN SubSeq(s, 1, Len(s) - 2) \o <<s[Len(s)]>>
         ELSE trimTrailingSpaces(SubSeq(s, 1, Len(s) - 1))
    ELSE s

\* The body of the scan loop for one line: the rule list after the line.
parseLine(text, acc) ==
    LET l1 == TrimRight(text, "\r")
        l2 == trimTrailingSpaces(l1)
        l3 == IF HasPrefix(l2, <<"\\", "#">>) THEN SliceFrom(l2, 1) ELSE l2
        neg == HasPrefix(l3, <<"!">>)
        l4 == IF neg THEN SliceFrom(l3, 1)
              ELSE IF HasPrefix(l3, <<"\\", "!">>) THEN SliceFrom(l3, 1)
              ELSE l3
    IN IF l1 = <<>> THEN acc
       ELSE IF l2 = <<>> THEN acc
       ELSE IF HasPrefix(l2, <<"#">>) THEN acc
       ELSE IF l4 = <<>> THEN acc
       ELSE Append(acc, [Pattern |-> l4,
                         Action |-> IF neg THEN "Include" ELSE "Exclude"])

RECURSIVE parseLines(_, _)
parseLines(lines, acc) ==
    IF lines = <<>> THEN acc
    ELSE parseLines(Tail(lines), parseLine(Head(lines), acc))

\* bufio.MaxScanTokenSize, the size the buffer of a Scanner made by
\* bufio.NewScanner may grow to.
MaxScanTokenSize == 64 * 1024

\* The tokens bufio.Scanner yields for a text with the default split
\* function, and the error Err() reports afterwards: the lines ended by "\n",
\* a last line without one when it is not empty, each without its trailing
\* "\r".  A line that fills the buffer before its end is seen stops the scan
\* with ErrTooLong, and no token is yielded for it or after it.
RECURSIVE scanLines(_)
scanLines(text) ==
    LET dropCR(line) ==
            IF line # <<>> /\ line[Len(line)] = "\r"
            THEN SubSeq(line, 1, Len(line) - 1) ELSE line
        more(line, rest) == [tokens |-> <<line>> \o rest.tokens, err |-> rest.err]
        splitAt(i) ==
            IF (IF i < 0 THEN Len(text) ELSE i) >= MaxScanTokenSize
            THEN [tokens |-> <<>>, err |-> "ErrTooLong"]
            ELSE IF i < 0 THEN [tokens |-> <<dropCR(text)>>, err |-> "nil"]
            ELSE more(dropCR(SliceTo(text, i)), scanLines(SliceFrom(text, i + 1)))
    IN IF text = <<>> THEN [tokens |-> <<>>, err |-> "nil"]
       ELSE splitAt(IndexByte(text, "\n"))

\* An io.Reader: the bytes it yields, and the error it ends with ("nil" for
\* io.EOF).  strings.NewReader and bytes.NewReader never fail.
NewReader(text) == [text |-> text, err |-> "nil"]

\* ParseRules: (rules, error).  The scanner reports its own error before the
\* reader's; on either the rules parsed so far are dropped and nil returned.
\* err is the error "scan rules: %w" wraps.
ParseRules(r) ==
    LET scanned(sc) ==
            IF sc.err # "nil" THEN [rules |-> <<>>, isNil |-> TRUE, err |-> sc.err]
            ELSE IF r.err # "nil" THEN [rules |-> <<>>, isNil |-> TRUE, err |-> r.err]
            ELSE [rules |-> parseLines(sc.tokens, <<>>), isNil |-> FALSE, err |-> "nil"]
    IN scanned(scanLines(r.text))

\* The append loop of MergeRules from argument i on: the elements appended.
RECURSIVE appendSetsFrom(_, _, _)
appendSetsFrom(heap, ruleSets, i) ==
    IF i > Len(ruleSets) THEN <<>>
    ELSE (IF ruleSets[i] = 0 THEN <<>> ELSE heap[ruleSets[i]])
         \o appendSetsFrom(heap, ruleSets, i + 1)

\* A merge that returns its argument when it is given one slice.
MergeRulesShared(heap, ruleSets, fresh) ==
    IF Len(ruleSets) = 1 THEN [heap |-> heap, out |-> ruleSets[1]]
    ELSE [heap |-> [heap EXCEPT ![fresh] = appendSetsFrom(heap, ruleSets, 1)],
          out |-> fresh]

\* MergeRules: out is a new array (fresh) of the total length, every element
\* of every argument is copied into it; the heap afterwards and the slice
\* returned.
MergeRules(heap, ruleSets, fresh) ==
    [heap |-> [heap EXCEPT ![fresh] = appendSetsFrom(heap, ruleSets, 1)],
     out |-> fresh]

\* ParseRulesString: (rules, error) of a text.
ParseRulesString(text) == ParseRules(NewReader(text))

\* A conversion that strips one leading "." where ParseExtensions strips all.
RECURSIVE ParseExtensionsOneDot(_)
ParseExtensionsOneDot(exts) ==
    IF exts = <<>> THEN <<>>
    ELSE LET afterLower(ext) ==
                 IF ext = <<>> THEN <<>>
                 ELSE <<[Pattern |-> <<"*", ".">> \o ext, Action |-> "Include"]>>
             afterTrimLeft(ext) == afterLower(asciiLower(ext))
             afterTrimPrefix(ext) == afterTrimLeft(TrimPrefix(ext, <<".">>))
             afterTrimSpace(ext) == afterTrimPrefix(TrimPrefix(ext, <<"*", ".">>))
         IN afterTrimSpace(TrimSpace(Head(exts))) \o ParseExtensionsOneDot(Tail(exts))

\* extensions.go, ParseExtensions: the include rules of an extension list.
RECURSIVE ParseExtensions(_)
ParseExtensions(exts) ==
    IF exts = <<>> THEN <<>>
    ELSE LET afterLower(ext) ==
                 IF ext = <<>> THEN <<>>
                 ELSE <<[Pattern |-> <<"*", ".">> \o ext, Action |-> "Include"]>>
             afterTrimLeft(ext) == afterLower(asciiLower(ext))
             afterTrimPrefix(ext) == afterTrimLeft(TrimLeft(ext, {"."}))
             afterTrimSpace(ext) == afterTrimPrefix(TrimPrefix(ext, <<"*", ".">>))
         IN afterTrimSpace(TrimSpace(Head(exts))) \o ParseExtensions(Tail(exts))

-----------------------------------------------------------------------------
(* provider.go: rules files on disk, their validation and loading.         *)
(*                                                                         *)
(* A filesystem path is the sequence of its component names.  An entry of *)
(* the filesystem is described by what the code can observe of it: kind    *)
(* "absent" (no entry), "file" (an entry whose symlinks resolve to an       *)
(* existing file at target, with these lines), "long" (such a file, of one  *)
(* line of MaxScanTokenSize characters), "dir" (a directory, or a symlink   *)
(* to one, at target), "dangling" (a symlink to nothing), "denied" (a file  *)
(* at target that cannot be opened), "nostat" (an entry below a directory   *)
(* that cannot be searched) or "loop" (a symlink that leads to itself).     *)

\* (matcher, error) values of the provider: the cause is the wrapped
\* sentinel, op and dir are the text fmt.Errorf puts around it.
NoError == [cause |-> "nil", op |-> "", dir |-> <<>>]
ProviderError(op, dir, cause) == [cause |-> cause, op |-> op, dir |-> dir]

\* filepath.Join(p.root, filepath.FromSlash(relDir), p.rulesFileName)
rulesPathOf(p, relDir) == CleanStack(Split(relDir), p.root) \o <<p.rulesFileName>>

\* The length of the longest common prefix of two component sequences.
RECURSIVE commonPrefixLen(_, _)
commonPrefixLen(a, b) ==
    IF a # <<>> /\ b # <<>> /\ Head(a) = Head(b)
    THEN 1 + commonPrefixLen(Tail(a), Tail(b))
    ELSE 0

\* filepath.Rel(root, target) of two absolute clean paths, as components.
filepathRel(root, target) ==
    LET c == commonPrefixLen(root, target)
        ups == [i \in 1..(Len(root) - c) |-> <<".", ".">>]
        rest == SubSeq(target, c + 1, Len(target))
    IN IF ups \o rest = <<>> THEN << <<".">> >> ELSE ups \o rest

\* isPathWithinRoot: the relative path is neither ".." nor starts with "../".
isPathWithinRoot(root, target) ==
    LET rel == filepathRel(root, target)
    IN IF rel = << <<".">> >> THEN TRUE
       ELSE IF rel = << <<".", ".">> >> \/ (Len(rel) > 1 /\ rel[1] = <<".", ".">>) THEN FALSE
       ELSE TRUE

\* os.IsNotExist
IsNotExist(err) == err = "ENOENT"

\* os.Lstat of an entry: the error.
Lstat(file) ==
    CASE file.kind = "absent" -> "ENOENT"
      [] file.kind = "nostat" -> "EACCES"
      [] OTHER -> "nil"

\* filepath.EvalSymlinks of an entry: (resolved path, error).
EvalSymlinks(file) ==
    CASE file.kind \in {"absent", "dangling"} -> [path |-> <<>>, err |-> "ENOENT"]
      [] file.kind = "nostat" -> [path |-> <<>>, err |-> "EACCES"]
      [] file.kind = "loop" -> [path |-> <<>>, err |-> "ELOOP"]
      [] OTHER -> [path |-> file.target, err |-> "nil"]

\* The bytes of lines, each ended by "\n".
RECURSIVE joinLines(_)
joinLines(lines) ==
    IF lines = <<>> THEN <<>> ELSE Head(lines) \o <<"\n">> \o joinLines(Tail(lines))

\* The sequence of n bytes c.
Repeat(c, n) == <<>> \o [i \in 1..n |-> c]

\* os.ReadFile of an entry: (content, error).
ReadFile(file) ==
    CASE file.kind \in {"absent", "dangling"} -> [content |-> <<>>, err |-> "ENOENT"]
      [] file.kind \in {"denied", "nostat"} -> [content |-> <<>>, err |-> "EACCES"]
      [] file.kind = "loop" -> [content |-> <<>>, err |-> "ELOOP"]
      [] file.kind = "dir" -> [content |-> <<>>, err |-> "EISDIR"]
      [] file.kind = "long" ->
            [content |-> Repeat("f", MaxScanTokenSize), err |-> "nil"]
      [] OTHER -> [content |-> joinLines(file.lines), err |-> "nil"]

\* filepath.Abs of a path as (path, error): an absolute path is returned
\* clean; a relative one is joined with the working directory, and fails
\* when that is unknown (cwd.err).
filepathAbs(name, cwd) ==
    IF name.absolute THEN [path |-> name.path, err |-> "nil"]
    ELSE IF cwd.err # "nil" THEN [path |-> <<>>, err |-> cwd.err]
    ELSE [path |-> cwd.path \o name.path, err |-> "nil"]

\* resolvePathOrAbs: (path, error).  The symlink-resolved path; when
\* resolution finds nothing, the absolute path; the error of filepath.Abs
\* (abs) or of the resolution otherwise.
resolvePathOrAbs(file, abs) ==
    LET resolved(ev) ==
            IF ev.err = "nil" THEN [path |-> ev.path, err |-> "nil"]
            ELSE IF abs.err # "nil" THEN [path |-> <<>>, err |-> abs.err]
            ELSE IF IsNotExist(ev.err) THEN [path |-> abs.path, err |-> "nil"]
            ELSE [path |-> <<>>, err |-> ev.err]
    IN resolved(EvalSymlinks(file))

\* A rules path is absolute: it is joined to the provider's root.
AbsolutePath(p) == [path |-> p, absolute |-> TRUE]
NoCwd == [path |-> <<>>, err |-> "ENOENT"]

\* A validation that finds the rules file without comparing its resolved
\* path with the root.
resolveWithoutRootCheck(p, file, relDir) ==
    LET checked(st, rs) ==
            IF st # "nil"
            THEN IF IsNotExist(st) THEN [found |-> FALSE, err |-> NoError]
                 ELSE [found |-> FALSE, err |-> ProviderError("stat", relDir, st)]
            ELSE IF rs.err # "nil"
            THEN [found |-> FALSE, err |-> ProviderError("resolve", relDir, rs.err)]
            ELSE [found |-> TRUE, err |-> NoError]
    IN checked(Lstat(file),
               resolvePathOrAbs(file, filepathAbs(AbsolutePath(rulesPathOf(p, relDir)), NoCwd)))

\* resolveAndValidateRulesPath: (found, error).
resolveAndValidateRulesPath(p, file, relDir) ==
    LET checked(st, rs) ==
            IF st # "nil"
            THEN IF IsNotExist(st) THEN [found |-> FALSE, err |-> NoError]
                 ELSE [found |-> FALSE, err |-> ProviderError("stat", relDir, st)]
            ELSE IF rs.err # "nil"
            THEN [found |-> FALSE, err |-> ProviderError("resolve", relDir, rs.err)]
            ELSE IF ~isPathWithinRoot(p.resolvedRoot, rs.path)
            THEN [found |-> FALSE,
                  err |-> ProviderError("", relDir, "ErrRulesPathOutsideRoot")]
            ELSE [found |-> TRUE, err |-> NoError]
    IN checked(Lstat(file),
               resolvePathOrAbs(file, filepathAbs(AbsolutePath(rulesPathOf(p, relDir)), NoCwd)))

\* The tail both branches of loadAndCompileDirMatcher share once the content
\* was read: ParseRules, then NewMatcher with the provider's options.
compileContent(p, content, relDir) ==
    LET wrapped(pr, c) ==
            IF pr.err # "nil"
            THEN [matcher |-> NilMatcher,
                  err |-> ProviderError("parse", relDir, pr.err), read |-> TRUE]
            ELSE IF c.err # "nil"
            THEN [matcher |-> NilMatcher,
                  err |-> ProviderError("compile", relDir, c.err), read |-> TRUE]
            ELSE [matcher |-> c.m, err |-> NoError, read |-> TRUE]
    IN wrapped(ParseRules(NewReader(content)),
               NewMatcherOf(ParseRules(NewReader(content)).rules, p.matcherOptions))

\* loadAndCompileDirMatcher: (matcher, error) of one directory, and whether
\* the content of the rules file was read on the way.
loadAndCompileDirMatcher(p, file, relDir) ==
    LET \* what comes before the content is parsed, on either branch: with
        \* the check off, nothing but a rules file that does not exist ends
        \* the load; with it on, resolveAndValidateRulesPath decides
        located(rd) ==
            IF ~p.enableSymlinkEscapeCheck
            THEN [found |-> ~IsNotExist(rd.err), err |-> NoError]
            ELSE resolveAndValidateRulesPath(p, file, relDir)
        \* compiled is what parsing and compiling the content read gives
        readAs(v, rd, compiled) ==
            IF v.err # NoError
            THEN [matcher |-> NilMatcher, err |-> v.err, read |-> FALSE]
            ELSE IF ~v.found
            THEN [matcher |-> NilMatcher, err |-> NoError, read |-> FALSE]
            ELSE IF rd.err # "nil"
            THEN [matcher |-> NilMatcher,
                  err |-> ProviderError("read", relDir, rd.err), read |-> FALSE]
            ELSE compiled
    IN readAs(located(ReadFile(file)), ReadFile(file),
              compileContent(p, ReadFile(file).content, relDir))

\* An unwrapping that hands out the matcher of the entry and drops its error.
unwrapIgnoringError(entry) == [matcher |-> entry.matcher, err |-> NoError]

\* unwrapCachedDirMatcher: the (matcher, error) a cache entry stands for.
unwrapCachedDirMatcher(entry) ==
    IF entry.err # NoError
    THEN [matcher |-> NilMatcher, err |-> entry.err]
    ELSE [matcher |-> entry.matcher, err |-> NoError]

\* The directory keys Decide loads for relDir, in the order it loads them:
\* "", then relDir[:i] for every slash index i, then relDir.
RECURSIVE dirPrefixesFrom(_, _)
dirPrefixesFrom(relDir, i) ==
    IF i >= Len(relDir) THEN <<>>
    ELSE IF At(relDir, i) # "/" THEN dirPrefixesFrom(relDir, i + 1)
    ELSE <<SliceTo(relDir, i)>> \o dirPrefixesFrom(relDir, i + 1)

dirChain(relDir) ==
    IF relDir = <<>> THEN << <<>> >>
    ELSE << <<>> >> \o dirPrefixesFrom(relDir, 0) \o <<relDir>>

\* A composition in which a directory matcher decides only while nothing
\* before it has matched.
applyDirMatcherUnlessMatched(m, rel, normalized, dir, res) ==
    IF m.nil \/ res.Matched THEN res
    ELSE IF rel # <<>> /\ normalized = rel THEN res
    ELSE IF rel # <<>> /\ ~HasPrefix(normalized, rel \o <<"/">>) THEN res
    ELSE LET afterDecide(decision) ==
                 IF ~decision.Matched THEN res
                 ELSE [Included |-> decision.Included, Matched |-> TRUE,
                       RuleIndex |-> decision.RuleIndex]
         IN afterDecide(MatcherDecide(m, IF rel # <<>>
                                         THEN SliceFrom(normalized, Len(rel) + 1)
                                         ELSE normalized,
                                      dir))

\* An applyDirMatcherDecision that takes over the decision of the directory
\* and leaves the rule index as it was.
applyDirMatcherKeepIndex(m, rel, normalized, dir, res) ==
    IF m.nil THEN res
    ELSE IF rel # <<>> /\ normalized = rel THEN res
    ELSE IF rel # <<>> /\ ~HasPrefix(normalized, rel \o <<"/">>) THEN res
    ELSE LET afterDecide(decision) ==
                 IF ~decision.Matched THEN res
                 ELSE [Included |-> decision.Included, Matched |-> TRUE,
                       RuleIndex |-> res.RuleIndex]
         IN afterDecide(MatcherDecide(m, IF rel # <<>>
                                         THEN SliceFrom(normalized, Len(rel) + 1)
                                         ELSE normalized,
                                      dir))

\* The part of applyDirMatcherDecision after the matcher was loaded: the
\* result after the matcher of directory rel was consulted.
applyDirMatcher(m, rel, normalized, dir, res) ==
    IF m.nil THEN res
    ELSE IF rel # <<>> /\ normalized = rel THEN res
    ELSE IF rel # <<>> /\ ~HasPrefix(normalized, rel \o <<"/">>) THEN res
    ELSE LET afterDecide(decision) ==
                 IF ~decision.Matched THEN res
                 ELSE [Included |-> decision.Included, Matched |-> TRUE,
                       RuleIndex |-> decision.RuleIndex]
         IN afterDecide(MatcherDecide(m, IF rel # <<>>
                                         THEN SliceFrom(normalized, Len(rel) + 1)
                                         ELSE normalized,
                                      dir))

\* The result Decide starts from: the default, overwritten by the base
\* matcher when it matched.
baseDecision(p, normalized, dir) ==
    LET afterDecide(baseRes) ==
            IF ~p.baseMatcher.nil /\ baseRes.Matched THEN baseRes
            ELSE [Included |-> p.defaultIncluded, Matched |-> FALSE, RuleIndex |-> -1]
    IN afterDecide(MatcherDecide(p.baseMatcher, normalized, dir))

\* cleanRelDir: (path, error) of the directory of DecideInDir; "" and "." are
\* the root.
cleanRelDir(raw) ==
    LET afterTrimSpace(trimmed) ==
            IF trimmed = <<>> \/ trimmed = <<".">> THEN [path |-> <<>>, err |-> "nil"]
            ELSE cleanRelPath(trimmed)
    IN afterTrimSpace(TrimSpace(raw))

\* cleanEntryName: (name, error) of one directory entry name.
InvalidEntryName == [name |-> <<>>, err |-> "ErrInvalidEntryName"]

cleanEntryName(raw) ==
    LET afterNormalize(p) ==
            IF p = <<>> \/ Contains(p, <<"/">>) \/ p = <<".">> \/ p = <<".", ".">>
            THEN InvalidEntryName
            ELSE [name |-> p, err |-> "nil"]
        afterTrimSpace(trimmed) ==
            IF trimmed = <<>> THEN InvalidEntryName
            ELSE IF filepathIsAbs(trimmed) THEN InvalidEntryName
            ELSE IF Contains(filepathToSlash(trimmed), <<"/">>) THEN InvalidEntryName
            ELSE afterNormalize(normalizePath(filepathToSlash(trimmed)))
    IN afterTrimSpace(TrimSpace(raw))

\* applyPreparedDirMatchers, from matcher i on: each prepared matcher is
\* applied to the full path as applyDirMatcherDecision applies a loaded one.
RECURSIVE applyPreparedDirMatchers(_, _, _, _, _)
applyPreparedDirMatchers(matchers, i, normalized, dir, res) ==
    IF i > Len(matchers) THEN res
    ELSE applyPreparedDirMatchers(matchers, i + 1, normalized, dir,
                                  applyDirMatcher(matchers[i].matcher, matchers[i].prefix,
                                                  normalized, dir, res))

\* The results of DecideInDir: nil, or one MatchResult per entry.
NilResults == [nil |-> TRUE, list |-> <<>>]

\* An entry loop that returns the results of the entries before an invalid
\* one beside the error.
RECURSIVE decideEntriesPartial(_, _, _, _, _, _)
decideEntriesPartial(p, matchers, normalizedDir, entries, i, acc) ==
    IF i > Len(entries) THEN [results |-> [nil |-> FALSE, list |-> acc], err |-> NoError]
    ELSE LET withPath(fullPath) ==
                 decideEntriesPartial(p, matchers, normalizedDir, entries, i + 1,
                     Append(acc, applyPreparedDirMatchers(
                                     matchers, 1, fullPath, entries[i].IsDir,
                                     baseDecision(p, fullPath, entries[i].IsDir))))
             afterClean(c) ==
                 IF c.err # "nil"
                 THEN [results |-> [nil |-> FALSE, list |-> acc],
                       err |-> ProviderError("entry", <<>>, c.err)]
                 ELSE withPath(IF normalizedDir # <<>>
                               THEN normalizedDir \o <<"/">> \o c.name
                               ELSE c.name)
         IN afterClean(cleanEntryName(entries[i].Name))

\* The entry loop of DecideInDir from entry i on: (results, error).
RECURSIVE decideEntries(_, _, _, _, _, _)
decideEntries(p, matchers, normalizedDir, entries, i, acc) ==
    IF i > Len(entries) THEN [results |-> [nil |-> FALSE, list |-> acc], err |-> NoError]
    ELSE LET withPath(fullPath) ==
                 decideEntries(p, matchers, normalizedDir, entries, i + 1,
                     Append(acc, applyPreparedDirMatchers(
                                     matchers, 1, fullPath, entries[i].IsDir,
                                     baseDecision(p, fullPath, entries[i].IsDir))))
             afterClean(c) ==
                 IF c.err # "nil"
                 THEN [results |-> NilResults,
                       err |-> ProviderError("entry", <<>>, c.err)]
                 ELSE withPath(IF normalizedDir # <<>>
                              THEN normalizedDir \o <<"/">> \o c.name
                              ELSE c.name)
         IN afterClean(cleanEntryName(entries[i].Name))

\* cleanRulesFileName: (name, error) of the configured rules file name.
defaultRulesFileName == <<".", "p", "a", "t", "h", "r", "u", "l", "e", "s">>

cleanRulesFileName(raw) ==
    LET t == TrimSpace(raw)
        name == IF t = <<>> THEN defaultRulesFileName ELSE t
    IN IF filepathIsAbs(name) THEN [name |-> <<>>, err |-> "ErrInvalidRulesFileName"]
       ELSE IF \/ Contains(filepathToSlash(name), <<"/">>)
               \/ filepathToSlash(name) = <<".">>
               \/ filepathToSlash(name) = <<".", ".">>
            THEN [name |-> <<>>, err |-> "ErrInvalidRulesFileName"]
       ELSE [name |-> filepathToSlash(name), err |-> "nil"]

\* NewProvider: (provider, error).  abs is filepath.Abs(rootDir) and
\* rootEntry the entry of the filesystem at that path.
NoOptions == [CaseInsensitive |-> FALSE, DefaultAction |-> "Unknown"]

NoProvider ==
    [root |-> <<>>, resolvedRoot |-> <<>>, rulesFileName |-> <<>>,
     matcherOptions |-> NoOptions, baseMatcher |-> NilMatcher,
     defaultIncluded |-> FALSE, enableSymlinkEscapeCheck |-> FALSE]

NewProviderOf(abs, rootEntry, po) ==
    LET built(resolved, mo, b, n) ==
            IF resolved.err # "nil"
            THEN [p |-> NoProvider,
                  err |-> ProviderError("resolve root", <<>>, resolved.err)]
            ELSE IF b.err # "nil"
            THEN [p |-> NoProvider,
                  err |-> ProviderError("compile base rules", <<>>, b.err)]
            ELSE IF n.err # "nil"
            THEN [p |-> NoProvider, err |-> ProviderError("", <<>>, n.err)]
            ELSE [p |-> [root |-> abs.path,
                         resolvedRoot |-> resolved.path,
                         rulesFileName |-> n.name,
                         matcherOptions |-> mo, baseMatcher |-> b.m,
                         defaultIncluded |-> mo.DefaultAction = "Include",
                         enableSymlinkEscapeCheck |-> po.EnableSymlinkEscapeCheck],
                  err |-> NoError]
    IN IF abs.err # "nil"
       THEN [p |-> NoProvider, err |-> ProviderError("abs root", <<>>, abs.err)]
       ELSE built(IF po.EnableSymlinkEscapeCheck
                  THEN resolvePathOrAbs(rootEntry,
                                        filepathAbs(AbsolutePath(abs.path), NoCwd))
                  ELSE [path |-> abs.path, err |-> "nil"],
                  applyDefaults(po.MatcherOptions),
                  NewMatcherOf(po.BaseRules, applyDefaults(po.MatcherOptions)),
                  cleanRulesFileName(po.RulesFileName))

\* The values of the variables of a part of the program nothing has used.
ZeroResult == [Included |-> FALSE, Matched |-> FALSE, RuleIndex |-> 0]
NoMatcher == [m |-> NilMatcher, err |-> "pending"]

NoMatcherState ==
    /\ rules = <<>>
    /\ opts = NoOptions
    /\ matcher = NoMatcher
    /\ path = <<>>
    /\ isDir = FALSE
    /\ result = ZeroResult
    /\ decided = FALSE

NoLoadState ==
    /\ src = <<>>
    /\ parsed = [done |-> FALSE, rules |-> <<>>]
    /\ made = [done |-> FALSE, p |-> NoProvider, err |-> NoError]

NoPathState ==
    /\ relPath = <<>>
    /\ cleaned = [path |-> <<>>, err |-> "pending"]

-----------------------------------------------------------------------------
(* One provider over a directory tree, called by threads.  Each thread     *)
(* runs Provider.Decide; the steps of loadDirMatcher are separate actions  *)
(* so that calls interleave where the code releases the mutex.             *)

Threads == {"t1", "t2"}

RootDir == << <<"r">> >>
RulesName == <<".", "r">>

\* The root directory as NewProvider finds it: filepath.Abs of its name and
\* its entry, a directory that is no symlink.
AbsRoot == [path |-> RootDir, err |-> "nil"]
RootEntry == [kind |-> "dir", lines |-> <<>>, target |-> RootDir]

\* The rules file of directory key k as a regular file with these lines, as
\* a symlink to a file outside the root, and no rules file; as a file of one
\* line too long to scan, a file that cannot be opened, a symlink to
\* nothing, an entry that cannot be examined and a symlink to itself.
AbsentFile == [kind |-> "absent", lines |-> <<>>, target |-> <<>>]
RegularFile(k, lines) ==
    [kind |-> "file", lines |-> lines,
     target |-> CleanStack(Split(k), RootDir) \o <<RulesName>>]
OutsideFile(lines) ==
    [kind |-> "file", lines |-> lines, target |-> << <<"o">>, RulesName >>]
LongFile(k) ==
    [kind |-> "long", lines |-> <<>>,
     target |-> CleanStack(Split(k), RootDir) \o <<RulesName>>]
DeniedFile(k) ==
    [kind |-> "denied", lines |-> <<>>,
     target |-> CleanStack(Split(k), RootDir) \o <<RulesName>>]
DanglingFile == [kind |-> "dangling", lines |-> <<>>, target |-> <<>>]
NoStatFile == [kind |-> "nostat", lines |-> <<>>, target |-> <<>>]
LoopFile == [kind |-> "loop", lines |-> <<>>, target |-> <<>>]

DirRoot == <<>>
DirA == <<"a">>
DirAA == <<"a", "/", "a">>

\* Calls of the sequential specification and the files of its trees.
ProviderCalls ==
    {[relPath |-> <<"f">>, isDir |-> FALSE],
     [relPath |-> <<"a", "/", "f">>, isDir |-> FALSE],
     [relPath |-> <<"a", "/", "a", "/", "f">>, isDir |-> FALSE],
     [relPath |-> <<"a">>, isDir |-> TRUE],
     [relPath |-> <<"a", "\\", "a">>, isDir |-> TRUE],
     [relPath |-> <<"a", "/", ".", ".">>, isDir |-> FALSE]}

ProviderFiles(k) ==
    CASE k = DirRoot -> {AbsentFile,
                         RegularFile(k, << <<"f">> >>),
                         RegularFile(k, << <<"/", "a", "/", "f">> >>)}
      [] k = DirA -> {AbsentFile,
                      RegularFile(k, << <<"!", "f">> >>),
                      RegularFile(k, << <<"/", "f">> >>),
                      RegularFile(k, << <<"/">> >>),
                      OutsideFile(<< <<"f">> >>)}
      [] k = DirAA -> {AbsentFile,
                       RegularFile(k, << <<"#", "c">>, <<"x">>, <<"!", "f", " ">> >>),
                       OutsideFile(<< <<"!", "f">> >>),
                       LongFile(k), DeniedFile(k), DanglingFile, NoStatFile, LoopFile}
      [] OTHER -> {AbsentFile}

ProviderOptionsSet ==
    [RulesFileName : {RulesName},
     BaseRules : {<<>>, <<[Pattern |-> <<"f">>, Action |-> "Exclude"]>>},
     MatcherOptions : [CaseInsensitive : {FALSE}, DefaultAction : {"Unknown", "Exclude"}],
     EnableSymlinkEscapeCheck : BOOLEAN]

\* Calls of the concurrent specification and the files written under it.
CacheCalls ==
    {[relPath |-> <<"f">>, isDir |-> FALSE],
     [relPath |-> <<"a", "/", "f">>, isDir |-> FALSE],
     [relPath |-> <<"a">>, isDir |-> TRUE]}

CacheDirs == {DirRoot, DirA}

CacheFiles(k) ==
    {AbsentFile, RegularFile(k, << <<"f">> >>), RegularFile(k, << <<"/">> >>)}
    \cup (IF k = DirA THEN {DeniedFile(k)} ELSE {})

CacheOptions ==
    [RulesFileName |-> RulesName, BaseRules |-> <<>>,
     MatcherOptions |-> [CaseInsensitive |-> FALSE, DefaultAction |-> "Unknown"],
     EnableSymlinkEscapeCheck |-> FALSE]

\* Every directory key a call of either specification can load.
ChainOf(call) ==
    LET afterClean(c) ==
            IF c.err # "nil" THEN <<>> ELSE dirChain(pathDir(c.path, call.isDir))
    IN afterClean(cleanRelPath(call.relPath))

DirKeys ==
    UNION { {chain[i] : i \in 1..Len(chain)} :
            chain \in {ChainOf(call) : call \in ProviderCalls \cup CacheCalls} }

\* A key that is not in p.cache, and the entry loadDirMatcher inserts.
NoEntry == [ok |-> FALSE, matcher |-> NilMatcher, err |-> NoError,
            loading |-> FALSE, wg |-> 0]
LoadingEntry == [ok |-> TRUE, matcher |-> NilMatcher, err |-> NoError,
                 loading |-> TRUE, wg |-> 1]

NoOutcome == [matcher |-> NilMatcher, err |-> NoError]

\* A thread outside a call that has not called yet.
IdleThread ==
    [pc |-> "idle", called |-> FALSE, relPath |-> <<>>, isDir |-> FALSE,
     normalized |-> <<>>, res |-> ZeroResult, chain |-> <<>>, next |-> 0,
     loading |-> FALSE, loaded |-> NoOutcome,
     inDir |-> FALSE, entries |-> <<>>, matchers |-> <<>>,
     ret |-> [res |-> ZeroResult, results |-> NilResults, err |-> NoError,
              included |-> FALSE, excluded |-> FALSE]]

\* Provider.Included and Provider.Excluded, from what Decide returned: the
\* flag they return beside the error.
ProviderIncluded(res, err) == IF err # NoError THEN FALSE ELSE res.Included

\* An Excluded that negates the flag without looking at the error.
ProviderExcludedUnchecked(res, err) == ~ProviderIncluded(res, err)

ProviderExcluded(res, err) ==
    IF err # NoError THEN FALSE ELSE ~ProviderIncluded(res, err)

\* The thread after Decide(relPath, isDir) returned (res, err), with what
\* Included and Excluded return for the same call.
ReturnedThread(raw, d, res, err) ==
    [IdleThread EXCEPT !.called = TRUE, !.relPath = raw, !.isDir = d,
                       !.ret = [res |-> res, results |-> NilResults, err |-> err,
                                included |-> ProviderIncluded(res, err),
                                excluded |-> ProviderExcluded(res, err)]]

\* The thread after DecideInDir(relDir, entries) returned (results, err).
ReturnedInDir(raw, entries, results, err) ==
    [IdleThread EXCEPT !.called = TRUE, !.relPath = raw, !.inDir = TRUE,
                       !.entries = entries,
                       !.ret = [res |-> ZeroResult, results |-> results, err |-> err,
                                included |-> FALSE, excluded |-> FALSE]]

NoProviderState ==
    /\ prov = NoProvider
    /\ fs = [k \in DirKeys |-> AbsentFile]
    /\ cache = [k \in DirKeys |-> NoEntry]
    /\ mu = "none"
    /\ th = [t \in Threads |-> IdleThread]
    /\ loads = [k \in DirKeys |-> 0]
    /\ reads = {}
    /\ seen = {}

\* A Decide that looks the root directory up before it validates the path:
\* a rejected path is reported only after the root rules file was loaded.
ProviderDecideLoadsFirst(t, raw, d) ==
    /\ th[t].pc = "idle"
    /\ \E c \in {cleanRelPath(raw)} :
          th' = [th EXCEPT ![t] =
                   IF prov = NoProvider
                   THEN ReturnedThread(raw, d, ZeroResult,
                                       ProviderError("", <<>>, "ErrNilProvider"))
                   ELSE [IdleThread EXCEPT
                           !.pc = "lock1", !.called = TRUE, !.relPath = raw, !.isDir = d,
                           !.normalized = c.path,
                           !.res = baseDecision(prov, c.path, d),
                           !.chain = IF c.err # "nil" THEN <<DirRoot>>
                                     ELSE dirChain(pathDir(c.path, d)),
                           !.next = 1]]
    /\ UNCHANGED <<prov, fs, cache, mu, loads, reads, seen, pathVars, matcherVars, loadVars>>

\* Provider.Decide up to its first loadDirMatcher: validation, the default
\* and the base decision, the directory chain.
ProviderDecide(t, raw, d) ==
    /\ th[t].pc = "idle"
    /\ \E c \in {cleanRelPath(raw)} :
          th' = [th EXCEPT ![t] =
                   IF prov = NoProvider
                   THEN ReturnedThread(raw, d, ZeroResult,
                                       ProviderError("", <<>>, "ErrNilProvider"))
                   ELSE IF c.err # "nil"
                   THEN ReturnedThread(raw, d, ZeroResult, ProviderError("", <<>>, c.err))
                   ELSE [IdleThread EXCEPT
                           !.pc = "lock1", !.called = TRUE, !.relPath = raw, !.isDir = d,
                           !.normalized = c.path,
                           !.res = baseDecision(prov, c.path, d),
                           !.chain = dirChain(pathDir(c.path, d)),
                           !.next = 1]]
    /\ UNCHANGED <<prov, fs, cache, mu, loads, reads, seen, pathVars, matcherVars, loadVars>>

\* Provider.DecideInDir up to the first loadDirMatcher of
\* prepareProviderDirMatchers: the validation of the directory and its chain.
ProviderDecideInDir(t, raw, entries) ==
    /\ th[t].pc = "idle"
    /\ \E c \in {cleanRelDir(raw)} :
          th' = [th EXCEPT ![t] =
                   IF prov = NoProvider
                   THEN ReturnedInDir(raw, entries, NilResults,
                                      ProviderError("", <<>>, "ErrNilProvider"))
                   ELSE IF c.err # "nil"
                   THEN ReturnedInDir(raw, entries, NilResults,
                                      ProviderError("", <<>>, c.err))
                   ELSE [IdleThread EXCEPT
                           !.pc = "lock1", !.called = TRUE, !.relPath = raw,
                           !.inDir = TRUE, !.entries = entries,
                           !.normalized = c.path,
                           !.chain = dirChain(c.path),
                           !.next = 1]]
    /\ UNCHANGED <<prov, fs, cache, mu, loads, reads, seen, pathVars, matcherVars, loadVars>>

\* The directory key the thread's loadDirMatcher is called for.
relDirOf(t) == th[t].chain[th[t].next]

\* What prepareProviderDirMatchers and DecideInDir do with the (matcher,
\* error) loadDirMatcher returned for the current key: return the error, or
\* keep a matcher that is not nil and go on with the next key, or run the
\* entry loop after the last one.
AfterLoadInDir(t, o) ==
    /\ th' = [th EXCEPT ![t] =
                IF o.err # NoError
                THEN ReturnedInDir(th[t].relPath, th[t].entries, NilResults, o.err)
                ELSE LET afterAppend(matchers) ==
                             IF th[t].next = Len(th[t].chain)
                             THEN LET afterEntries(r) ==
                                          ReturnedInDir(th[t].relPath, th[t].entries,
                                                        r.results, r.err)
                                  IN afterEntries(decideEntries(prov, matchers,
                                                                th[t].normalized,
                                                                th[t].entries, 1, <<>>))
                             ELSE [th[t] EXCEPT !.pc = "lock1", !.matchers = matchers,
                                                !.next = th[t].next + 1,
                                                !.loading = FALSE, !.loaded = NoOutcome]
                     IN afterAppend(IF o.matcher.nil THEN th[t].matchers
                                    ELSE Append(th[t].matchers,
                                                [matcher |-> o.matcher,
                                                 prefix |-> relDirOf(t)]))]
    /\ seen' = seen \cup {[dir |-> relDirOf(t), matcher |-> o.matcher, err |-> o.err]}


\* A Decide that treats a directory whose load failed as one without rules.
AfterLoadIgnoreError(t, o) ==
    /\ th' = [th EXCEPT ![t] =
                LET afterApply(res) ==
                        IF th[t].next = Len(th[t].chain)
                        THEN ReturnedThread(th[t].relPath, th[t].isDir, res, NoError)
                        ELSE [th[t] EXCEPT !.pc = "lock1", !.res = res,
                                           !.next = th[t].next + 1,
                                           !.loading = FALSE, !.loaded = NoOutcome]
                IN afterApply(applyDirMatcher(o.matcher, relDirOf(t),
                                              th[t].normalized, th[t].isDir,
                                              th[t].res))]
    /\ seen' = seen \cup {[dir |-> relDirOf(t), matcher |-> o.matcher, err |-> o.err]}

\* What Decide does with the (matcher, error) loadDirMatcher returned for
\* the current key: return the error, or apply the matcher and go on with
\* the next key, or return the composed result after the last one.
AfterLoad(t, o) ==
    /\ th' = [th EXCEPT ![t] =
                IF o.err # NoError
                THEN ReturnedThread(th[t].relPath, th[t].isDir, ZeroResult, o.err)
                ELSE LET afterApply(res) ==
                             IF th[t].next = Len(th[t].chain)
                             THEN ReturnedThread(th[t].relPath, th[t].isDir, res, NoError)
                             ELSE [th[t] EXCEPT !.pc = "lock1", !.res = res,
                                                !.next = th[t].next + 1,
                                                !.loading = FALSE, !.loaded = NoOutcome]
                     IN afterApply(applyDirMatcher(o.matcher, relDirOf(t),
                                                   th[t].normalized, th[t].isDir,
                                                   th[t].res))]
    /\ seen' = seen \cup {[dir |-> relDirOf(t), matcher |-> o.matcher, err |-> o.err]}

\* The caller loadDirMatcher returns to.
ReturnFromLoad(t, o) == IF th[t].inDir THEN AfterLoadInDir(t, o) ELSE AfterLoad(t, o)

\* p.mu.Lock() at the head of loadDirMatcher and after the load.
LockCache(t) ==
    /\ th[t].pc \in {"lock1", "lock2"}
    /\ mu = "none"
    /\ mu' = t
    /\ th' = [th EXCEPT ![t].pc = IF th[t].pc = "lock1" THEN "lookup" ELSE "store"]
    /\ UNCHANGED <<prov, fs, cache, loads, reads, seen, pathVars, matcherVars, loadVars>>

\* A lookup that loads a directory again when its entry holds an error.
LookupDirRetryFailed(t) ==
    /\ th[t].pc = "lookup"
    /\ mu = t
    /\ mu' = "none"
    /\ IF cache[relDirOf(t)].ok
          /\ (cache[relDirOf(t)].loading \/ cache[relDirOf(t)].err = NoError)
       THEN /\ th' = [th EXCEPT ![t].pc = "await",
                                ![t].loading = cache[relDirOf(t)].loading]
            /\ UNCHANGED cache
       ELSE /\ cache' = [cache EXCEPT ![relDirOf(t)] = LoadingEntry]
            /\ th' = [th EXCEPT ![t].pc = "load"]
    /\ UNCHANGED <<prov, fs, loads, reads, seen, pathVars, matcherVars, loadVars>>

\* A lookup that, on a miss, goes on to load without leaving a loading entry.
LookupDirNoLoadingEntry(t) ==
    /\ th[t].pc = "lookup"
    /\ mu = t
    /\ mu' = "none"
    /\ IF cache[relDirOf(t)].ok
       THEN th' = [th EXCEPT ![t].pc = "await",
                             ![t].loading = cache[relDirOf(t)].loading]
       ELSE th' = [th EXCEPT ![t].pc = "load"]
    /\ UNCHANGED <<prov, fs, cache, loads, reads, seen, pathVars, matcherVars, loadVars>>

\* A lookup that, on a miss, goes on to load inside the critical section: the
\* mutex is not released before the load.
LookupDirHoldingLock(t) ==
    /\ th[t].pc = "lookup"
    /\ mu = t
    /\ IF cache[relDirOf(t)].ok
       THEN /\ mu' = "none"
            /\ th' = [th EXCEPT ![t].pc = "await",
                                ![t].loading = cache[relDirOf(t)].loading]
            /\ UNCHANGED cache
       ELSE /\ mu' = mu
            /\ cache' = [cache EXCEPT ![relDirOf(t)] = LoadingEntry]
            /\ th' = [th EXCEPT ![t].pc = "load"]
    /\ UNCHANGED <<prov, fs, loads, reads, seen, pathVars, matcherVars, loadVars>>

\* The first critical section: the cache lookup; a hit remembers the loading
\* flag, a miss inserts the loading entry; then p.mu.Unlock().
LookupDir(t) ==
    /\ th[t].pc = "lookup"
    /\ mu = t
    /\ mu' = "none"
    /\ IF cache[relDirOf(t)].ok
       THEN /\ th' = [th EXCEPT ![t].pc = "await",
                                ![t].loading = cache[relDirOf(t)].loading]
            /\ UNCHANGED cache
       ELSE /\ cache' = [cache EXCEPT ![relDirOf(t)] = LoadingEntry]
            /\ th' = [th EXCEPT ![t].pc = "load"]
    /\ UNCHANGED <<prov, fs, loads, reads, seen, pathVars, matcherVars, loadVars>>

\* A hit branch that unwraps the entry without waiting for its load.
AwaitDirNoWait(t) ==
    /\ th[t].pc = "await"
    /\ ReturnFromLoad(t, unwrapCachedDirMatcher(cache[relDirOf(t)]))
    /\ UNCHANGED <<prov, fs, cache, mu, loads, reads, pathVars, matcherVars, loadVars>>

\* The hit branch after the unlock: cached.wg.Wait() when the entry was
\* loading, then unwrapCachedDirMatcher(cached).
AwaitDir(t) ==
    /\ th[t].pc = "await"
    /\ th[t].loading => cache[relDirOf(t)].wg = 0
    /\ ReturnFromLoad(t, unwrapCachedDirMatcher(cache[relDirOf(t)]))
    /\ UNCHANGED <<prov, fs, cache, mu, loads, reads, pathVars, matcherVars, loadVars>>

\* matcher, loadErr := p.loadAndCompileDirMatcher(relDir), outside the mutex.
LoadDir(t) ==
    /\ th[t].pc = "load"
    /\ \E o \in {loadAndCompileDirMatcher(prov, fs[relDirOf(t)], relDirOf(t))} :
          /\ th' = [th EXCEPT ![t].pc = "lock2",
                              ![t].loaded = [matcher |-> o.matcher, err |-> o.err]]
          /\ reads' = IF o.read THEN reads \cup {relDirOf(t)} ELSE reads
    /\ loads' = [loads EXCEPT ![relDirOf(t)] = @ + 1]
    /\ UNCHANGED <<prov, fs, cache, mu, seen, pathVars, matcherVars, loadVars>>

\* A store that completes the entry and never signals its latch.
StoreDirNoSignal(t) ==
    /\ th[t].pc = "store"
    /\ mu = t
    /\ cache' = [cache EXCEPT ![relDirOf(t)] =
                    [ok |-> TRUE, matcher |-> th[t].loaded.matcher,
                     err |-> th[t].loaded.err, loading |-> FALSE, wg |-> 1]]
    /\ th' = [th EXCEPT ![t].pc = "unlock"]
    /\ UNCHANGED <<prov, fs, mu, loads, reads, seen, pathVars, matcherVars, loadVars>>

\* The second critical section up to cached.wg.Done(): the outcome is stored
\* in the entry and the waiters are released, while the mutex is still held.
StoreDir(t) ==
    /\ th[t].pc = "store"
    /\ mu = t
    /\ cache' = [cache EXCEPT ![relDirOf(t)] =
                    [ok |-> TRUE, matcher |-> th[t].loaded.matcher,
                     err |-> th[t].loaded.err, loading |-> FALSE, wg |-> 0]]
    /\ th' = [th EXCEPT ![t].pc = "unlock"]
    /\ UNCHANGED <<prov, fs, mu, loads, reads, seen, pathVars, matcherVars, loadVars>>

\* p.mu.Unlock() at the end of the second critical section, and the return of
\* the outcome of the load.
UnlockDir(t) ==
    /\ th[t].pc = "unlock"
    /\ mu = t
    /\ mu' = "none"
    /\ ReturnFromLoad(t, th[t].loaded)
    /\ UNCHANGED <<prov, fs, cache, loads, reads, pathVars, matcherVars, loadVars>>

\* Something outside the program replaces, creates or deletes a rules file.
WriteRulesFile(k, f) ==
    /\ fs[k] # f
    /\ fs' = [fs EXCEPT ![k] = f]
    /\ UNCHANGED <<prov, cache, mu, th, loads, reads, seen, pathVars, matcherVars, loadVars>>

LoadDirMatcherStep(t) ==
    \/ LockCache(t)
    \/ LookupDir(t)
    \/ AwaitDir(t)
    \/ LoadDir(t)
    \/ StoreDir(t)
    \/ UnlockDir(t)

\* The sequential specification: one thread, every tree of ProviderFiles,
\* every provider of ProviderOptionsSet; the files do not change.
InitProvider ==
    /\ NoPathState
    /\ NoMatcherState
    /\ NoLoadState
    /\ \E po \in ProviderOptionsSet : prov = NewProviderOf(AbsRoot, RootEntry, po).p
    /\ fs \in {f \in [DirKeys -> UNION {ProviderFiles(k) : k \in DirKeys}] :
                 \A k \in DirKeys : f[k] \in ProviderFiles(k)}
    /\ cache = [k \in DirKeys |-> NoEntry]
    /\ mu = "none"
    /\ th = [t \in Threads |-> IdleThread]
    /\ loads = [k \in DirKeys |-> 0]
    /\ reads = {}
    /\ seen = {}

NextProvider ==
    \/ \E call \in ProviderCalls : ProviderDecide("t1", call.relPath, call.isDir)
    \/ LoadDirMatcherStep("t1")

SpecProvider == InitProvider /\ [][NextProvider]_vars

\* The concurrent specification: two threads call one provider while the
\* rules files are rewritten under it.
InitCache ==
    /\ NoPathState
    /\ NoMatcherState
    /\ NoLoadState
    /\ prov = NewProviderOf(AbsRoot, RootEntry, CacheOptions).p
    /\ fs = [k \in DirKeys |-> AbsentFile]
    /\ cache = [k \in DirKeys |-> NoEntry]
    /\ mu = "none"
    /\ th = [t \in Threads |-> IdleThread]
    /\ loads = [k \in DirKeys |-> 0]
    /\ reads = {}
    /\ seen = {}

NextCache ==
    \/ \E t \in Threads, call \in CacheCalls : ProviderDecide(t, call.relPath, call.isDir)
    \/ \E t \in Threads : LoadDirMatcherStep(t)
    \/ \E k \in CacheDirs : \E f \in CacheFiles(k) : WriteRulesFile(k, f)

SpecCache == InitCache /\ [][NextCache]_vars

\* The directory specification: one provider over unchanging files; thread
\* t1 calls Decide once and thread t2 calls DecideInDir once, in either
\* order, one call at a time.  The provider is one NewProvider returned, or
\* the nil provider (the value of NoProvider).
MaxEntries == 2

\* Entry names cleanEntryName accepts, and one it rejects of each kind:
\* empty, absolute, with a separator, "." and "..".
ValidEntries ==
    {[Name |-> <<"f">>, IsDir |-> FALSE],
     [Name |-> <<"a">>, IsDir |-> TRUE]}

InvalidEntries ==
    {[Name |-> <<>>, IsDir |-> FALSE],
     [Name |-> <<"/", "a">>, IsDir |-> TRUE],
     [Name |-> <<"a", "/", "f">>, IsDir |-> FALSE],
     [Name |-> <<".">>, IsDir |-> TRUE],
     [Name |-> <<".", ".">>, IsDir |-> TRUE]}

\* The entry lists of a call: up to MaxEntries entries, at most one of them
\* invalid, at any position.
DirEntryLists ==
    UNION { {es \in [1..n -> ValidEntries \cup InvalidEntries] :
                Cardinality({i \in 1..n : es[i] \in InvalidEntries}) <= 1} :
            n \in 0..MaxEntries }

RelDirs == {<<>>, <<"a">>, <<".", ".">>}

InDirFiles(k) ==
    CASE k = DirRoot -> {AbsentFile, RegularFile(k, << <<"f">> >>)}
      [] k = DirA -> {AbsentFile,
                      RegularFile(k, << <<"!", "f">> >>),
                      RegularFile(k, << <<"/">> >>)}
      [] OTHER -> {AbsentFile}

\* The Decide calls of the directory specification: those of the concurrent
\* one and a path cleanRelPath rejects.
InDirCalls == CacheCalls \cup {[relPath |-> <<".", ".">>, isDir |-> FALSE]}

InDirOptionsSet ==
    [RulesFileName : {RulesName},
     BaseRules : {<<>>},
     MatcherOptions : [CaseInsensitive : {FALSE}, DefaultAction : {"Unknown", "Exclude"}],
     EnableSymlinkEscapeCheck : {FALSE}]

InitInDir ==
    /\ NoPathState
    /\ NoMatcherState
    /\ NoLoadState
    /\ \/ prov = NoProvider
       \/ \E po \in InDirOptionsSet : prov = NewProviderOf(AbsRoot, RootEntry, po).p
    /\ fs \in {f \in [DirKeys -> UNION {InDirFiles(k) : k \in DirKeys}] :
                 \A k \in DirKeys : f[k] \in InDirFiles(k)}
    /\ cache = [k \in DirKeys |-> NoEntry]
    /\ mu = "none"
    /\ th = [t \in Threads |-> IdleThread]
    /\ loads = [k \in DirKeys |-> 0]
    /\ reads = {}
    /\ seen = {}

NextInDir ==
    \/ /\ th["t2"].pc = "idle" /\ ~th["t1"].called
       /\ \E call \in InDirCalls : ProviderDecide("t1", call.relPath, call.isDir)
    \/ /\ th["t1"].pc = "idle" /\ ~th["t2"].called
       /\ \E dir \in RelDirs, entries \in DirEntryLists :
             ProviderDecideInDir("t2", dir, entries)
    \/ \E t \in Threads : LoadDirMatcherStep(t)

SpecInDir == InitInDir /\ [][NextInDir]_vars

\* The loading specification: three threads call Decide and DecideInDir on
\* one provider, again and again, for paths in the sibling directories a and
\* b; the root has a rules file, a has one that does not compile, b has none.
FlightThreads == {"t1", "t2", "t3"}

DirB == <<"b">>

FlightKeys == {DirRoot, DirA, DirB}

FlightCalls ==
    {[relPath |-> <<"a", "/", "f">>, isDir |-> FALSE],
     [relPath |-> <<"b", "/", "f">>, isDir |-> FALSE]}

FlightDirs == {DirA, DirB}

FlightEntryLists == { <<[Name |-> <<"f">>, IsDir |-> FALSE]>> }

FlightFiles(k) ==
    CASE k = DirRoot -> {RegularFile(k, << <<"f">> >>)}
      [] k = DirA -> {RegularFile(k, << <<"/">> >>)}
      [] OTHER -> {AbsentFile}

InitFlight ==
    /\ NoPathState
    /\ NoMatcherState
    /\ NoLoadState
    /\ prov = NewProviderOf(AbsRoot, RootEntry, CacheOptions).p
    /\ fs \in {f \in [FlightKeys -> UNION {FlightFiles(k) : k \in FlightKeys}] :
                 \A k \in FlightKeys : f[k] \in FlightFiles(k)}
    /\ cache = [k \in FlightKeys |-> NoEntry]
    /\ mu = "none"
    /\ th = [t \in FlightThreads |-> IdleThread]
    /\ loads = [k \in FlightKeys |-> 0]
    /\ reads = {}
    /\ seen = {}

NextFlight ==
    \/ \E t \in FlightThreads, call \in FlightCalls :
          ProviderDecide(t, call.relPath, call.isDir)
    \/ \E t \in FlightThreads, dir \in FlightDirs, entries \in FlightEntryLists :
          ProviderDecideInDir(t, dir, entries)
    \/ \E t \in FlightThreads : LoadDirMatcherStep(t)

SpecFlight == InitFlight /\ [][NextFlight]_vars

-----------------------------------------------------------------------------
(* Raw paths offered to the provider: up to MaxComps components joined by  *)
(* either separator.  The components include the empty one (which yields   *)
(* leading, trailing and doubled separators), ".", ".." and a blank.       *)

MaxComps == 4

PathComponents == {<<"a">>, <<".">>, <<".", ".">>, <<>>, <<" ">>}
Separators == {"/", "\\"}

RECURSIVE JoinWith(_, _)
JoinWith(cs, ss) ==
    IF Len(cs) = 1 THEN cs[1]
    ELSE cs[1] \o <<ss[1]>> \o JoinWith(Tail(cs), Tail(ss))

RawPaths ==
    UNION { { JoinWith(cs, ss) : cs \in [1..n -> PathComponents],
                                 ss \in [1..(n - 1) -> Separators] } : n \in 1..MaxComps }

\* Nothing has been called yet.
Init ==
    /\ NoPathState
    /\ NoMatcherState
    /\ NoLoadState
    /\ NoProviderState

\* The validation step of Provider.Decide: normalized, err := cleanRelPath(relPath).
CleanRelPath(raw) ==
    /\ cleaned.err = "pending"
    /\ relPath' = raw
    /\ cleaned' = cleanRelPath(raw)
    /\ UNCHANGED <<matcherVars, providerVars, loadVars>>

NextPath == \E raw \in RawPaths : CleanRelPath(raw)

SpecPath == Init /\ [][NextPath]_vars

-----------------------------------------------------------------------------
(* One matcher: NewMatcher on a rule list, then Matcher.Decide on a path.  *)

MaxRules == 2

MatcherPatterns == {<<"a", "/">>, <<"/", "a", "/">>, <<"*">>, <<"B">>}

MatcherRules ==
    [Pattern : MatcherPatterns, Action : {"Exclude", "Include"}]
    \cup {[Pattern |-> <<"a">>, Action |-> "Unknown"],
          [Pattern |-> <<"/">>, Action |-> "Exclude"]}

RuleLists == UNION {[1..n -> MatcherRules] : n \in 0..MaxRules}

MatcherOptionsSet ==
    [CaseInsensitive : BOOLEAN, DefaultAction : {"Unknown", "Exclude", "Include"}]

MatcherPaths ==
    {<<>>, <<"a">>, <<"B">>, <<"a", "/", "b">>, <<"b", "/", "a">>, <<".", "/", "b">>}

\* m, err := NewMatcher(rs, o)
NewMatcher(rs, o) ==
    /\ matcher.err = "pending"
    /\ rules' = rs
    /\ opts' = o
    /\ matcher' = NewMatcherOf(rs, o)
    /\ UNCHANGED <<path, isDir, result, decided, pathVars, providerVars, loadVars>>

\* res := m.Decide(p, d) on the matcher NewMatcher returned without error.
Decide(p, d) ==
    /\ matcher.err = "nil"
    /\ ~decided
    /\ path' = p
    /\ isDir' = d
    /\ result' = MatcherDecide(matcher.m, p, d)
    /\ decided' = TRUE
    /\ UNCHANGED <<rules, opts, matcher, pathVars, providerVars, loadVars>>

NextMatcher ==
    \/ \E rs \in RuleLists, o \in MatcherOptionsSet : NewMatcher(rs, o)
    \/ \E p \in MatcherPaths, d \in BOOLEAN : Decide(p, d)

SpecMatcher == Init /\ [][NextMatcher]_vars

-----------------------------------------------------------------------------
(* One rule: NewMatcher on a single Exclude rule, then Matcher.Decide, over *)
(* patterns of every matching strategy of compileRule.                     *)

GlobPatterns ==
    {<<"a">>, <<"/", "a">>, <<"a", "/">>, <<"/", "a", "/">>,
     <<"a", "/", "b">>, <<"/", "a", "/", "b">>, <<"/", "a", "/", "b", "/">>,
     <<"*">>, <<"/", "*">>, <<"?", "/", "b">>, <<"/", "?", "/", "b">>,
     <<"/", "a", "/", "*", "/">>, <<"a", "/", "*", "/">>,
     <<"a", "[", "!", "b", "]", "b">>, <<"/", "a", "[", "!", "b", "]", "b">>,
     <<"/", "[", "a", "b", "]", "/", "b">>, <<"[", "a", "b", "]", "/", "b", "/">>,
     <<"a", "/", "*", "*">>, <<"/", "a", "/", "*", "*">>,
     <<"a", "/", "b", "/", "*", "*">>, <<"/", "?", "/", "*", "*">>,
     <<"*", "/", "*", "*">>, <<"/", "a", "/", "*", "*", "/">>}

GlobPaths ==
    {<<>>, <<"a">>, <<"b">>, <<"a", "/", "b">>, <<"b", "/", "a">>,
     <<"a", "/", "b", "/", "a">>, <<"b", "/", "a", "/", "b">>,
     <<"a", "a", "b">>, <<"b", "/", "a", "/", "b", "/", "a">>}

NextPattern ==
    \/ \E pat \in GlobPatterns :
          NewMatcher(<<[Pattern |-> pat, Action |-> "Exclude"]>>, NoOptions)
    \/ \E p \in GlobPaths, d \in BOOLEAN : Decide(p, d)

SpecPattern == Init /\ [][NextPattern]_vars

-----------------------------------------------------------------------------
(* Construction alone: NewMatcher on lists of rules that compile and rules *)
(* that do not.                                                            *)

CompileRules ==
    {[Pattern |-> <<"a">>, Action |-> "Exclude"],
     [Pattern |-> <<"a">>, Action |-> "Unknown"],
     [Pattern |-> <<"/">>, Action |-> "Unknown"],
     [Pattern |-> <<" ">>, Action |-> "Exclude"],
     [Pattern |-> <<"/", "/">>, Action |-> "Include"],
     [Pattern |-> <<" ", "\\", " ">>, Action |-> "Exclude"],
     [Pattern |-> <<"/", " ", "/">>, Action |-> "Include"]}

CompileRuleLists == UNION {[1..n -> CompileRules] : n \in 0..MaxRules}

NextCompile == \E rs \in CompileRuleLists, o \in MatcherOptionsSet : NewMatcher(rs, o)

SpecCompile == Init /\ [][NextCompile]_vars

-----------------------------------------------------------------------------
(* One parser call: ParseRulesString on a text of up to MaxText characters  *)
(* or on a text with a line at the limit of the scanner, or ParseRules on a *)
(* reader that fails.                                                       *)

MaxText == 4

TextChars == {"a", "#", "!", "\\", " ", "\t", "\n"}

Texts == UNION {[1..n -> TextChars] : n \in 0..MaxText}

\* Lines of MaxScanTokenSize bytes and of one byte less, and texts of them.
FullLine == Repeat("a", MaxScanTokenSize)
AlmostFullLine == Repeat("a", MaxScanTokenSize - 1)

LongTexts ==
    {FullLine,
     <<"a", "\n">> \o FullLine \o <<"\n", "a">>,
     AlmostFullLine,
     <<"!">> \o Tail(AlmostFullLine) \o <<"\n", "a", "\n">>,
     AlmostFullLine \o <<"\r", "\n", "a">>}

\* Readers that yield a text and then fail.
FailingReaderErrors == {"EIO"}
FailingReaders ==
    [text : {<<>>, <<"a">>, <<"a", "\n", "!", "a">>}, err : FailingReaderErrors]

\* rules, err := ParseRulesString(text)
ParseText(text) ==
    /\ ~parsed.done
    /\ src' = text
    /\ \E pr \in {ParseRulesString(text)} :
          parsed' = [done |-> TRUE, rules |-> pr.rules, isNil |-> pr.isNil, err |-> pr.err]
    /\ UNCHANGED <<made, pathVars, matcherVars, providerVars>>

\* rules, err := ParseRules(r)
ParseReader(r) ==
    /\ ~parsed.done
    /\ src' = r.text
    /\ \E pr \in {ParseRules(r)} :
          parsed' = [done |-> TRUE, rules |-> pr.rules, isNil |-> pr.isNil, err |-> pr.err]
    /\ UNCHANGED <<made, pathVars, matcherVars, providerVars>>

NextParse ==
    \/ \E text \in Texts \cup LongTexts : ParseText(text)
    \/ \E r \in FailingReaders : ParseReader(r)

SpecParse == Init /\ [][NextParse]_vars

-----------------------------------------------------------------------------
(* One construction: NewProvider on a root directory and options whose     *)
(* rules file name has up to MaxName characters.                           *)

MaxName == 3

NameChars == {"r", ".", "/", "\\", " "}

RulesFileNames == UNION {[1..n -> NameChars] : n \in 0..MaxName}

NewProviderOptions ==
    [RulesFileName : RulesFileNames,
     BaseRules : {<<>>,
                  <<[Pattern |-> <<"f">>, Action |-> "Exclude"]>>,
                  <<[Pattern |-> <<"/">>, Action |-> "Exclude"]>>},
     MatcherOptions : {NoOptions},
     EnableSymlinkEscapeCheck : BOOLEAN]

\* The root given absolute or relative to the working directory, the working
\* directory known or not, and what is found at the root: the directory, a
\* symlink to a directory elsewhere, nothing, an entry that cannot be
\* examined, a symlink to itself.
RootNames == {AbsolutePath(RootDir), [path |-> RootDir, absolute |-> FALSE]}
WorkingDirs == {[path |-> <<>>, err |-> "nil"], NoCwd}
RootEntries ==
    {RootEntry, [kind |-> "dir", lines |-> <<>>, target |-> << <<"o">> >>],
     AbsentFile, NoStatFile, LoopFile}

\* p, err := NewProvider(rootDir, po)
NewProvider(rootDir, cwd, entry, po) ==
    /\ ~made.done
    /\ src' = po
    /\ \E o \in {NewProviderOf(filepathAbs(rootDir, cwd), entry, po)} :
          /\ made' = [done |-> TRUE, p |-> o.p, err |-> o.err,
                      abs |-> filepathAbs(rootDir, cwd), entry |-> entry]
          /\ prov' = o.p
    /\ UNCHANGED <<parsed, fs, cache, mu, th, loads, reads, seen, pathVars, matcherVars>>

NextNew ==
    \E rootDir \in RootNames, cwd \in WorkingDirs, entry \in RootEntries,
       po \in NewProviderOptions : NewProvider(rootDir, cwd, entry, po)

SpecNew == Init /\ [][NextNew]_vars

-----------------------------------------------------------------------------
(* One conversion: ParseExtensions on a list of one extension of up to     *)
(* MaxExt characters, alone or beside a short one.                         *)

MaxExt == 3

ExtChars == {"a", "A", ".", "*", " "}

Exts == UNION {[1..n -> ExtChars] : n \in 0..MaxExt}
ShortExts == UNION {[1..n -> ExtChars] : n \in 0..1}

ExtLists ==
    {<<>>} \cup {<<e>> : e \in Exts}
           \cup {<<e, f>> : e \in Exts, f \in ShortExts}
           \cup {<<f, e>> : e \in Exts, f \in ShortExts}

\* rules := ParseExtensions(exts)
ParseExts(exts) ==
    /\ ~parsed.done
    /\ src' = exts
    /\ parsed' = [done |-> TRUE, rules |-> ParseExtensions(exts)]
    /\ UNCHANGED <<made, pathVars, matcherVars, providerVars>>

NextExt == \E exts \in ExtLists : ParseExts(exts)

SpecExt == Init /\ [][NextExt]_vars

-----------------------------------------------------------------------------
(* One merge: MergeRules on up to MaxSets rule slices.  A slice is the     *)
(* backing array it refers to, 0 for nil; src holds the arrays as they     *)
(* were given, the arrays as they are now and the arguments of the call.   *)

MaxSets == 2

InputArrays == {1, 2}
OutArray == Cardinality(InputArrays) + 1
Arrays == InputArrays \cup {OutArray}

MergeValues ==
    {[Pattern |-> <<"a">>, Action |-> "Exclude"], [Pattern |-> <<"b">>, Action |-> "Include"]}

ArrayContents == UNION {[1..n -> MergeValues] : n \in 0..MaxRules}

MergeArgs == UNION {[1..n -> {0} \cup InputArrays] : n \in 0..MaxSets}

\* The elements of a slice.
Elements(heap, slice) == IF slice = 0 THEN <<>> ELSE heap[slice]

InitMerge ==
    /\ NoPathState
    /\ NoMatcherState
    /\ NoProviderState
    /\ \E a1 \in ArrayContents, a2 \in ArrayContents, args \in MergeArgs :
          src = [given |-> (1 :> a1) @@ (2 :> a2) @@ (3 :> <<>>),
                 heap |-> (1 :> a1) @@ (2 :> a2) @@ (3 :> <<>>),
                 args |-> args]
    /\ parsed = [done |-> FALSE, rules |-> <<>>, out |-> 0, wrote |-> "nothing"]
    /\ made = [done |-> FALSE, p |-> NoProvider, err |-> NoError]

\* merged := MergeRules(args...): the array of the result is made by the
\* call and receives a copy of every element.
MergeCall ==
    /\ ~parsed.done
    /\ \E m \in {MergeRules(src.heap, src.args, OutArray)} :
          /\ src' = [src EXCEPT !.heap = m.heap]
          /\ parsed' = [done |-> TRUE, rules |-> Elements(m.heap, m.out),
                        out |-> m.out, wrote |-> "nothing"]
    /\ UNCHANGED <<made, pathVars, matcherVars, providerVars>>

\* The caller assigns to an element of an argument slice after the call.
WriteInput(i, j, r) ==
    /\ parsed.done /\ parsed.wrote = "nothing"
    /\ src.args[i] # 0
    /\ j \in 1..Len(src.heap[src.args[i]])
    /\ src.heap[src.args[i]][j] # r
    /\ src' = [src EXCEPT !.heap[src.args[i]][j] = r]
    /\ parsed' = [parsed EXCEPT !.wrote = "input"]
    /\ UNCHANGED <<made, pathVars, matcherVars, providerVars>>

\* The caller assigns to an element of the merged slice.
WriteResult(j, r) ==
    /\ parsed.done /\ parsed.wrote = "nothing"
    /\ parsed.out # 0
    /\ j \in 1..Len(src.heap[parsed.out])
    /\ src.heap[parsed.out][j] # r
    /\ src' = [src EXCEPT !.heap[parsed.out][j] = r]
    /\ parsed' = [parsed EXCEPT !.wrote = "result"]
    /\ UNCHANGED <<made, pathVars, matcherVars, providerVars>>

NextMerge ==
    \/ MergeCall
    \/ \E i \in 1..Len(src.args), j \in 1..MaxRules, r \in MergeValues : WriteInput(i, j, r)
    \/ \E j \in 1..(MaxSets * MaxRules), r \in MergeValues : WriteResult(j, r)

SpecMerge == InitMerge /\ [][NextMerge]_vars

-----------------------------------------------------------------------------
(* Case folding: NewMatcher and Matcher.Decide over patterns and paths     *)
(* that differ in the case of their letters.  "^" and "~" are two bytes    *)
(* outside the letters that differ by what a letter and its other case     *)
(* differ by.                                                              *)

CasePatterns ==
    {<<"a">>, <<"A">>,
     <<"b", "/", "a">>, <<"B", "/", "a">>, <<"b", "/", "A">>, <<"B", "/", "A">>,
     <<"*", "a">>, <<"*", "A">>,
     <<"[", "a", "]">>, <<"[", "A", "]">>,
     <<"^">>, <<"~">>}

CaseRuleLists ==
    UNION {[1..n -> [Pattern : CasePatterns, Action : {"Exclude"}]] : n \in 0..MaxRules}

CasePaths ==
    {<<"a">>, <<"A">>,
     <<"b", "/", "a">>, <<"B", "/", "a">>, <<"b", "/", "A">>, <<"B", "/", "A">>,
     <<"^">>, <<"~">>}

NextCase ==
    \/ \E rs \in CaseRuleLists, ci \in BOOLEAN :
          NewMatcher(rs, [CaseInsensitive |-> ci, DefaultAction |-> "Unknown"])
    \/ \E p \in CasePaths, d \in BOOLEAN : Decide(p, d)

SpecCase == Init /\ [][NextCase]_vars

-----------------------------------------------------------------------------
(* One call of the wildcard segment matcher on a pattern and an input      *)
(* segment of up to MaxSeg bytes; the input may hold "*" and "?".          *)

MaxSeg == 3

SegChars == {"a", "b", "*", "?"}

Segs == UNION {[1..n -> SegChars] : n \in 0..MaxSeg}

\* ok := matchSimpleWildcard(pattern, input)
MatchWildcard(pattern, input) ==
    /\ ~parsed.done
    /\ src' = [pattern |-> pattern, input |-> input]
    /\ parsed' = [done |-> TRUE, rules |-> <<>>, ok |-> matchSimpleWildcard(pattern, input)]
    /\ UNCHANGED <<made, pathVars, matcherVars, providerVars>>

NextWildcard == \E pattern \in Segs, input \in Segs : MatchWildcard(pattern, input)

SpecWildcard == Init /\ [][NextWildcard]_vars

-----------------------------------------------------------------------------
(* One slash-containing pattern without a character class: NewMatcher on   *)
(* the single Exclude rule, then Matcher.Decide on a candidate.            *)

MaxPat == 4

MaxCand == 4

PatChars == {"a", "/", "*", "?"}

CandChars == {"a", "b", "/"}

SlashPatterns ==
    {p \in UNION {[1..n -> PatChars] : n \in 1..MaxPat} : \E i \in 1..Len(p) : p[i] = "/"}

StrategyPaths == UNION {[1..n -> CandChars] : n \in 0..MaxCand}

NextStrategy ==
    \/ \E pat \in SlashPatterns :
          NewMatcher(<<[Pattern |-> pat, Action |-> "Exclude"]>>, NoOptions)
    \/ \E p \in StrategyPaths, d \in BOOLEAN : Decide(p, d)

SpecStrategy == Init /\ [][NextStrategy]_vars

-----------------------------------------------------------------------------
(* The candidate normalizer alone: normalizePath on a raw path, then       *)
(* normalizePath on what it returned.                                      *)

\* out := normalizePath(raw)
NormalizePath(raw) ==
    /\ ~parsed.done
    /\ src' = raw
    /\ parsed' = [done |-> TRUE, rules |-> <<>>, out |-> normalizePath(raw),
                  redone |-> FALSE, again |-> <<>>]
    /\ UNCHANGED <<made, pathVars, matcherVars, providerVars>>

\* again := normalizePath(out)
NormalizeAgain ==
    /\ parsed.done
    /\ ~parsed.redone
    /\ parsed' = [parsed EXCEPT !.redone = TRUE, !.again = normalizePath(parsed.out)]
    /\ UNCHANGED <<src, made, pathVars, matcherVars, providerVars>>

NextNormalize ==
    \/ \E raw \in RawPaths : NormalizePath(raw)
    \/ NormalizeAgain

SpecNormalize == Init /\ [][NextNormalize]_vars

-----------------------------------------------------------------------------
(* The cache protocol under fair scheduling: two threads call Decide and   *)
(* DecideInDir of one provider again and again over unchanging files.  A   *)
(* runnable thread is eventually run and a load returns (weak fairness of  *)
(* the steps outside the mutex); sync.Mutex hands the lock to a waiter in  *)
(* starvation mode, so a thread that asks for it again and again gets it   *)
(* (strong fairness of Lock).                                              *)

ProgressCalls ==
    {[relPath |-> <<"f">>, isDir |-> FALSE],
     [relPath |-> <<"a", "/", "f">>, isDir |-> FALSE]}

ProgressEntryLists == {<<>>, <<[Name |-> <<"f">>, IsDir |-> FALSE]>>}

InitProgress ==
    /\ NoPathState
    /\ NoMatcherState
    /\ NoLoadState
    /\ prov = NewProviderOf(AbsRoot, RootEntry, CacheOptions).p
    /\ fs \in {f \in [DirKeys -> UNION {CacheFiles(k) : k \in DirKeys}] :
                 \A k \in DirKeys : f[k] \in (IF k \in CacheDirs THEN CacheFiles(k)
                                              ELSE {AbsentFile})}
    /\ cache = [k \in DirKeys |-> NoEntry]
    /\ mu = "none"
    /\ th = [t \in Threads |-> IdleThread]
    /\ loads = [k \in DirKeys |-> 0]
    /\ reads = {}
    /\ seen = {}

NextProgress ==
    \/ \E t \in Threads, call \in ProgressCalls :
          ProviderDecide(t, call.relPath, call.isDir)
    \/ \E t \in Threads, entries \in ProgressEntryLists :
          ProviderDecideInDir(t, DirA, entries)
    \/ \E t \in Threads : LoadDirMatcherStep(t)

\* Steps of thread t told by what they change: the load returns (the load
\* count of the directory goes up), the store signals the latch of the entry,
\* and the second critical section ends with the unlock.
LoadReturns(t) ==
    /\ th[t].pc = "load"
    /\ loads' = [loads EXCEPT ![relDirOf(t)] = @ + 1]

StoreSignals(t) ==
    /\ th[t].pc = "store"
    /\ mu = t
    /\ cache' = [cache EXCEPT ![relDirOf(t)].loading = FALSE, ![relDirOf(t)].wg = 0,
                               ![relDirOf(t)].matcher = th[t].loaded.matcher,
                               ![relDirOf(t)].err = th[t].loaded.err]

StoreUnlocks(t) ==
    /\ th[t].pc = "unlock"
    /\ mu = t
    /\ mu' = "none"

\* AwaitDir(t) is enabled: the thread is in the hit branch and the latch it
\* has to wait for, if any, is released.
Released(t) ==
    /\ th[t].pc = "await"
    /\ th[t].loading => cache[relDirOf(t)].wg = 0

FairThreads ==
    \A t \in Threads :
        /\ SF_vars(LockCache(t))
        /\ WF_vars(LookupDir(t))
        /\ WF_loads(LoadReturns(t))
        /\ WF_cache(StoreSignals(t))
        /\ WF_mu(StoreUnlocks(t))
        /\ []<>~Released(t)

SpecProgress == InitProgress /\ [][NextProgress]_vars /\ FairThreads

-----------------------------------------------------------------------------
(* Every call that returns a MatchResult: a program that builds a Matcher  *)
(* and calls its Decide, or one that calls Decide (thread t1) and          *)
(* DecideInDir (thread t2) of a provider, one call at a time.  A Matcher   *)
(* and a Provider share nothing, so the model runs one or the other.       *)

ResultRules ==
    {<<>>,
     <<[Pattern |-> <<"f">>, Action |-> "Exclude"]>>,
     <<[Pattern |-> <<"x">>, Action |-> "Exclude"],
       [Pattern |-> <<"f">>, Action |-> "Include"]>>}

ResultOptions == [CaseInsensitive : {FALSE}, DefaultAction : {"Unknown", "Include", "Exclude"}]

ResultPaths == {<<>>, <<"f">>, <<"a", "/", "f">>}

ResultProviderOptions ==
    [RulesFileName : {RulesName},
     BaseRules : {<<>>, <<[Pattern |-> <<"x">>, Action |-> "Exclude"],
                         [Pattern |-> <<"f">>, Action |-> "Include"]>>},
     MatcherOptions : [CaseInsensitive : {FALSE}, DefaultAction : {"Unknown", "Exclude"}],
     EnableSymlinkEscapeCheck : {FALSE}]

ResultFiles(k) ==
    CASE k = DirRoot -> {AbsentFile, RegularFile(k, << <<"f">> >>)}
      [] k = DirA -> {AbsentFile, RegularFile(k, << <<"y">>, <<"!", "f">> >>)}
      [] OTHER -> {AbsentFile}

ResultEntryLists ==
    {<<[Name |-> <<"f">>, IsDir |-> FALSE]>>,
     <<[Name |-> <<"f">>, IsDir |-> FALSE], [Name |-> <<"a">>, IsDir |-> TRUE]>>}

InitResult ==
    /\ NoPathState
    /\ NoMatcherState
    /\ NoLoadState
    /\ \E po \in ResultProviderOptions : prov = NewProviderOf(AbsRoot, RootEntry, po).p
    /\ fs \in {f \in [DirKeys -> UNION {ResultFiles(k) : k \in DirKeys}] :
                 \A k \in DirKeys : f[k] \in ResultFiles(k)}
    /\ cache = [k \in DirKeys |-> NoEntry]
    /\ mu = "none"
    /\ th = [t \in Threads |-> IdleThread]
    /\ loads = [k \in DirKeys |-> 0]
    /\ reads = {}
    /\ seen = {}

NextResult ==
    \/ /\ \A t \in Threads : ~th[t].called
       /\ \/ \E rs \in ResultRules, o \in ResultOptions : NewMatcher(rs, o)
          \/ \E p \in ResultPaths, d \in BOOLEAN : Decide(p, d)
    \/ /\ matcher.err = "pending"
       /\ \/ /\ th["t2"].pc = "idle" /\ ~th["t1"].called
             /\ \E call \in CacheCalls : ProviderDecide("t1", call.relPath, call.isDir)
          \/ /\ th["t1"].pc = "idle" /\ ~th["t2"].called
             /\ \E dir \in {DirRoot, DirA}, entries \in ResultEntryLists :
                   ProviderDecideInDir("t2", dir, entries)
          \/ \E t \in Threads : LoadDirMatcherStep(t)

SpecResult == InitResult /\ [][NextResult]_vars

-----------------------------------------------------------------------------
(* Matcher claims.                                                         *)

\* The candidate Matcher.Decide evaluates for the decided path.
Candidate ==
    IF opts.CaseInsensitive THEN asciiLower(normalizePath(path)) ELSE normalizePath(path)

\* The 1-based positions of the rules whose compiled form matches the candidate.
Hits == {i \in 1..Len(matcher.m.compiled) : matches(matcher.m.compiled[i], Candidate, isDir)}

LastHit == CHOOSE i \in Hits : \A j \in Hits : i >= j

\* C1: last match wins.  If some rule matches, the result is matched, its
\* rule_index is the largest matching index and included is that rule's action
\* being Include; otherwise (also for no rules or an empty candidate) the
\* result is the default, unmatched, with rule_index -1, an unset default
\* action counting as Include.
C1_LastMatchWins ==
    decided =>
        /\ Len(matcher.m.compiled) = Len(rules)
        /\ (Candidate = <<>> => Hits = {})
        /\ IF Hits = {}
           THEN result = [Included |-> opts.DefaultAction \in {"Include", "Unknown"},
                          Matched |-> FALSE, RuleIndex |-> -1]
           ELSE result = [Included |-> rules[LastHit].Action = "Include",
                          Matched |-> TRUE, RuleIndex |-> LastHit - 1]

\* C1 witness: two rules with different actions match and the later one decides.
C1_Witness ==
    /\ decided
    /\ \E i \in Hits, j \in Hits : i < j /\ rules[i].Action # rules[j].Action
    /\ result.RuleIndex = LastHit - 1

\* The proper ancestor directories of a candidate.
Ancestors(c) == {SliceTo(c, i) : i \in {j \in 0..(Len(c) - 1) : At(c, j) = "/"}}

\* C10: a dir-only rule matches a file candidate only through one of its
\* proper ancestor directories; the candidate itself is a match target only
\* when is_dir is true.
C10_DirOnlyNeedsDirectory ==
    (decided /\ result.Matched /\ ~isDir /\ matcher.m.compiled[result.RuleIndex + 1].dirOnly)
        => \E d \in Ancestors(Candidate) :
              matches(matcher.m.compiled[result.RuleIndex + 1], d, TRUE)

-----------------------------------------------------------------------------
(* Path validation claims.                                                 *)

\* The components of a raw path, delimited by both separators the candidate
\* normalizer recognizes.
RawComponents(raw) == Split(BackslashToSlash(TrimSpace(raw)))

MustBeRejected(raw) ==
    \/ TrimSpace(raw) = <<>>
    \/ HasPrefix(TrimSpace(raw), <<"/">>)
    \/ \E i \in 1..Len(RawComponents(raw)) : RawComponents(raw)[i] = <<".", ".">>

\* C6: every rel_path that is empty after trimming, absolute, or has ".." as
\* a component (delimited by "/" or "\") is answered with ErrPathOutsideRoot.
C6_TraversalRejected ==
    (cleaned.err # "pending" /\ MustBeRejected(relPath)) => cleaned.err = "ErrPathOutsideRoot"

LexicallyClean(p) ==
    /\ p # <<>>
    /\ \A i \in 1..Len(Split(p)) :
          Split(p)[i] \notin {<<>>, <<".">>, <<".", ".">>}

\* C7: the candidate of every accepted rel_path is non-empty and has no "..",
\* no "." and no empty component (so no leading, trailing or doubled "/").
C7_AcceptedIsClean ==
    (cleaned.err # "pending" /\ cleaned.err = "nil") => LexicallyClean(cleaned.path)

-----------------------------------------------------------------------------
(* Provider claims.                                                        *)

\* A thread whose Decide has returned, and one whose rel_path was accepted.
Returned(t) == th[t].pc = "idle" /\ th[t].called
Accepted(t) == Returned(t) /\ cleanRelPath(th[t].relPath).err = "nil"

\* The candidate of the call and the directories whose rules files are in
\* scope for it: the root and every directory on the way to the candidate's
\* directory (to the candidate itself when it is a directory).
NormOf(t) == cleanRelPath(th[t].relPath).path
ScopeDirs(t) ==
    LET relDir == pathDir(NormOf(t), th[t].isDir)
    IN {k \in DirKeys : k = <<>> \/ k = relDir \/ HasPrefix(relDir, k \o <<"/">>)}

\* What the rules file of directory k, as it is on disk, loads to.
DiskOutcome(k) == loadAndCompileDirMatcher(prov, fs[k], k)

Unmatched == [Included |-> FALSE, Matched |-> FALSE, RuleIndex |-> -1]

\* The decision of the rules file of directory k for the candidate of t: its
\* rules see the candidate relative to k, and only candidates strictly below k.
ScopeDecision(k, t) ==
    LET m == DiskOutcome(k).matcher
    IN IF m.nil THEN Unmatched
       ELSE IF k = <<>> THEN MatcherDecide(m, NormOf(t), th[t].isDir)
       ELSE IF HasPrefix(NormOf(t), k \o <<"/">>)
            THEN MatcherDecide(m, SliceFrom(NormOf(t), Len(k) + 1), th[t].isDir)
       ELSE Unmatched

MatchedScopes(t) == {k \in ScopeDirs(t) : ScopeDecision(k, t).Matched}
Deepest(S) == CHOOSE k \in S : \A j \in S : Len(k) >= Len(j)
Shallowest(S) == CHOOSE k \in S : \A j \in S : Len(k) <= Len(j)
BaseResult(t) == MatcherDecide(prov.baseMatcher, NormOf(t), th[t].isDir)

\* The decision of the last scope that matched, in the order base rules,
\* root file, ancestor files from the shallowest to the deepest.
ExpectedResult(t) ==
    IF MatchedScopes(t) # {}
    THEN [Included |-> ScopeDecision(Deepest(MatchedScopes(t)), t).Included,
          Matched |-> TRUE,
          RuleIndex |-> ScopeDecision(Deepest(MatchedScopes(t)), t).RuleIndex]
    ELSE IF BaseResult(t).Matched THEN BaseResult(t)
    ELSE [Included |-> prov.matcherOptions.DefaultAction = "Include",
          Matched |-> FALSE, RuleIndex |-> -1]

\* C2: a Decide that returns without error returns the decision of the last
\* scope that matched in the order base, root file, ancestors from shallowest
\* to deepest, with that scope's own rule index, whatever calls filled the
\* cache before; the default, unmatched, with rule_index -1 if none matched.
C2_ScopeOrder ==
    \A t \in Threads :
        (Accepted(t) /\ th[t].ret.err = NoError) => th[t].ret.res = ExpectedResult(t)

\* C2 witness: the base rules and two rules files of different depth matched
\* with different decisions, and the deepest file decided.
C2_Witness ==
    \E t \in Threads :
        /\ Accepted(t)
        /\ th[t].ret.err = NoError
        /\ BaseResult(t).Matched
        /\ \E k1 \in MatchedScopes(t), k2 \in MatchedScopes(t) :
              /\ Len(k1) < Len(k2)
              /\ k2 = Deepest(MatchedScopes(t))
              /\ ScopeDecision(k1, t).Included # ScopeDecision(k2, t).Included
              /\ th[t].ret.res.Included = ScopeDecision(k2, t).Included
              /\ th[t].ret.res.RuleIndex = ScopeDecision(k2, t).RuleIndex

\* C8: the rules file of a non-root directory D has a say only in decisions
\* for candidates strictly below D.  A returned error comes from the root
\* file or from a directory the candidate is strictly below, and a returned
\* result is composed of the decisions the files of such directories take on
\* the candidate with the prefix D/ stripped.
C8_RulesFileScope ==
    \A t \in Threads :
        Accepted(t) =>
            /\ th[t].ret.err # NoError =>
                  \/ th[t].ret.err.dir = <<>>
                  \/ HasPrefix(NormOf(t), th[t].ret.err.dir \o <<"/">>)
            /\ th[t].ret.err = NoError => th[t].ret.res = ExpectedResult(t)

\* The rules file of directory k exists and resolves outside the resolved root.
OutsideRoot(k) ==
    /\ fs[k].kind = "file"
    /\ \/ Len(fs[k].target) < Len(prov.resolvedRoot)
       \/ SubSeq(fs[k].target, 1, Len(prov.resolvedRoot)) # prov.resolvedRoot

Completed(k) == cache[k].ok /\ ~cache[k].loading

\* C9: with the symlink escape check on, a rules file that resolves outside
\* the root loads to ErrRulesPathOutsideRoot without its content being read,
\* and a Decide with that directory in scope returns an error, that one
\* unless a shallower directory failed first; with the check off the file is
\* read, compiled and applied like any other.
C9_SymlinkEscape ==
    /\ \A k \in DirKeys :
          (Completed(k) /\ OutsideRoot(k)) =>
              IF prov.enableSymlinkEscapeCheck
              THEN /\ cache[k].err = ProviderError("", k, "ErrRulesPathOutsideRoot")
                   /\ cache[k].matcher.nil
                   /\ k \notin reads
              ELSE /\ k \in reads
                   /\ LET c == NewMatcherOf(ParseRules(NewReader(ReadFile(fs[k]).content)).rules,
                                             prov.matcherOptions)
                      IN IF c.err = "nil"
                         THEN cache[k].err = NoError /\ cache[k].matcher = c.m
                         ELSE cache[k].err = ProviderError("compile", k, c.err)
    /\ \A t \in Threads :
          Accepted(t) =>
              LET out == {k \in ScopeDirs(t) : OutsideRoot(k)}
              IN IF prov.enableSymlinkEscapeCheck /\ out # {}
                 THEN /\ th[t].ret.err # NoError
                      /\ Len(th[t].ret.err.dir) <= Len(Shallowest(out))
                      /\ th[t].ret.err.dir = Shallowest(out) =>
                            th[t].ret.err.cause = "ErrRulesPathOutsideRoot"
                 ELSE th[t].ret.err = NoError => th[t].ret.res = ExpectedResult(t)

\* C9 witness: the check is on, the rules file of a non-root directory with
\* rules that would match resolves outside the root, and Decide returned
\* ErrRulesPathOutsideRoot for a path below it without reading the file.
C9_Witness ==
    \E t \in Threads :
        /\ Accepted(t)
        /\ prov.enableSymlinkEscapeCheck
        /\ th[t].ret.err.cause = "ErrRulesPathOutsideRoot"
        /\ th[t].ret.err.dir # <<>>
        /\ OutsideRoot(th[t].ret.err.dir)
        /\ HasPrefix(NormOf(t), th[t].ret.err.dir \o <<"/">>)
        /\ th[t].ret.err.dir \notin reads

-----------------------------------------------------------------------------
(* Cache claims.                                                           *)

\* C3: a completed cache entry is never removed or overwritten, and all the
\* lookups of one directory key return one outcome, whatever is written to
\* the rules files in between.
C3_CacheMonotone ==
    [][/\ \A k \in DirKeys : Completed(k) => cache'[k] = cache[k]
       /\ \A o1 \in seen', o2 \in seen' : o1.dir = o2.dir => o1 = o2]_vars

\* C3 witness: a directory's rules file was rewritten after its lookup
\* completed, so that loading it now would give another outcome, and a
\* thread has looked the key up again and found the entry.
C3_Witness ==
    \E k \in DirKeys, t \in Threads :
        /\ Completed(k)
        /\ \E o \in seen : o.dir = k
        /\ [matcher |-> DiskOutcome(k).matcher, err |-> DiskOutcome(k).err]
              # unwrapCachedDirMatcher(cache[k])
        /\ th[t].pc = "await"
        /\ relDirOf(t) = k

\* A thread between its insertion of a loading entry and the end of its
\* second critical section.
OwnsLoad(t) == th[t].pc \in {"load", "lock2", "store"}

\* A thread in cached.wg.Wait() on a latch that has not been signalled.
WaitsForLoad(t) ==
    th[t].pc = "await" /\ th[t].loading /\ cache[relDirOf(t)].wg # 0

\* C4: in every interleaving of Decide and DecideInDir calls the rules file
\* of a directory is loaded at most once per provider; calls that ask for
\* the same directory collapse onto one load: at most one thread is loading
\* a directory, and a thread that waits waits for the thread loading the very
\* directory it asked for; a load of another directory holds nobody up: no
\* thread waits for it, and a thread at its load does not hold the cache
\* mutex, so the lookups and loads of the other threads go on meanwhile.
C4_SingleFlight ==
    /\ \A k \in DOMAIN loads : loads[k] <= 1
    /\ \A t \in DOMAIN th, u \in DOMAIN th :
          (OwnsLoad(t) /\ OwnsLoad(u) /\ relDirOf(t) = relDirOf(u)) => t = u
    /\ \A t \in DOMAIN th :
          WaitsForLoad(t) =>
              \E u \in DOMAIN th \ {t} : OwnsLoad(u) /\ relDirOf(u) = relDirOf(t)
    /\ \A t \in DOMAIN th : th[t].pc = "load" => mu # t

\* C4 witness: one thread in Decide is at the load of directory a, a thread
\* in DecideInDir that asked for a during that load waits for its outcome,
\* and a third thread is at the load of directory b at the same time; no
\* rules file of a or b has been loaded before.
C4_Witness ==
    \E t1 \in DOMAIN th, t2 \in DOMAIN th, t3 \in DOMAIN th :
        /\ th[t1].pc = "load" /\ relDirOf(t1) = DirA /\ ~th[t1].inDir
        /\ WaitsForLoad(t2) /\ relDirOf(t2) = DirA /\ th[t2].inDir
        /\ th[t3].pc = "load" /\ relDirOf(t3) = DirB
        /\ loads[DirA] = 0 /\ loads[DirB] = 0

\* C5: two returned calls of Decide with the same arguments returned the same
\* result or the same error.
C5_Deterministic ==
    \A t1 \in Threads, t2 \in Threads :
        (Returned(t1) /\ Returned(t2)
            /\ th[t1].relPath = th[t2].relPath /\ th[t1].isDir = th[t2].isDir)
        => th[t1].ret = th[t2].ret

\* C5 witness: two threads returned from the same call of an accepted path
\* while the rules file of a directory in its scope is no longer what was
\* loaded.
C5_Witness ==
    \E t1 \in Threads, t2 \in Threads :
        /\ t1 # t2
        /\ Accepted(t1) /\ Accepted(t2)
        /\ th[t1].relPath = th[t2].relPath /\ th[t1].isDir = th[t2].isDir
        /\ \E k \in ScopeDirs(t1) :
              /\ Completed(k)
              /\ [matcher |-> DiskOutcome(k).matcher, err |-> DiskOutcome(k).err]
                    # unwrapCachedDirMatcher(cache[k])

-----------------------------------------------------------------------------
(* Pattern claims, on the single rule of SpecPattern.                      *)

\* Glob semantics of one pattern segment on one path component: "*" is any
\* run of bytes, "?" one byte, "[...]" one byte of the class ("[!...]" one
\* byte outside it), any other byte itself.
ClassAccepts(p, i, c) ==
    LET negated == At(p, i + 1) = "!"
        members == {At(p, k) : k \in (IF negated THEN i + 2 ELSE i + 1)..
                                     (findCharClassEnd(p, i) - 1)}
    IN (c \in members) # negated

RECURSIVE GlobFrom(_, _, _, _)
GlobFrom(p, i, s, j) ==
    IF i >= Len(p) THEN j = Len(s)
    ELSE IF At(p, i) = "*" THEN \E k \in j..Len(s) : GlobFrom(p, i + 1, s, k)
    ELSE IF j >= Len(s) THEN FALSE
    ELSE IF At(p, i) = "?" THEN GlobFrom(p, i + 1, s, j + 1)
    ELSE IF findCharClassEnd(p, i) >= 0
         THEN ClassAccepts(p, i, At(s, j))
              /\ GlobFrom(p, findCharClassEnd(p, i) + 1, s, j + 1)
    ELSE At(p, i) = At(s, j) /\ GlobFrom(p, i + 1, s, j + 1)

\* The segments ps match the components cs[i], cs[i+1], ...
SegmentsFrom(ps, cs, i) ==
    /\ i + Len(ps) - 1 <= Len(cs)
    /\ \A k \in 1..Len(ps) : GlobFrom(ps[k], 0, cs[i + k - 1], 0)

\* The rule of the matcher, and what its raw pattern says.
TheRule == rules[1]
RuleAnchored == HasPrefix(normalizePattern(TheRule.Pattern), <<"/">>)
RuleDirOnly == HasSuffix(normalizePattern(TheRule.Pattern), <<"/">>)
RuleText == Trim(normalizePattern(TheRule.Pattern), {"/"})
RuleSegments == Split(RuleText)
Components == Split(Candidate)

\* C11: an anchored pattern without "**" matches a candidate only when its
\* segments match the candidate's components from the first one on, and an
\* unanchored one matches wherever its segments match the components up to
\* the last one (or, dir-only, up to a directory).
C11_AnchoredFromStart ==
    (decided /\ Candidate # <<>> /\ ~Contains(RuleText, <<"*", "*">>)) =>
        /\ (RuleAnchored /\ result.Matched) => SegmentsFrom(RuleSegments, Components, 1)
        /\ (/\ ~RuleAnchored
            /\ \E i \in 1..Len(Components) :
                  /\ SegmentsFrom(RuleSegments, Components, i)
                  /\ IF i + Len(RuleSegments) - 1 = Len(Components)
                     THEN RuleDirOnly => isDir
                     ELSE RuleDirOnly)
           => result.Matched

\* The prefix of a pattern "prefix/**" and its segments.
PrefixText == TrimSuffix(RuleText, <<"/", "*", "*">>)
PrefixSegments == Split(PrefixText)
IsPrefixDoubleStar ==
    /\ HasSuffix(RuleText, <<"/", "*", "*">>)
    /\ PrefixText # <<>>
    /\ ~Contains(PrefixText, <<"*", "*">>)
    /\ ~patternHasCharClass(PrefixText)

\* The component positions at which a match of the rule may start.
StartPositions == IF RuleAnchored THEN {1} ELSE 1..Len(Components)

\* C12: a pattern "prefix/**" matches exactly the candidates in which the
\* prefix segments match consecutive components (from the first one when
\* anchored, from any one otherwise) and at least one more component
\* follows; the directory of the prefix itself never matches.
C12_PrefixDoubleStar ==
    (decided /\ IsPrefixDoubleStar) =>
        (result.Matched <=>
            \E i \in StartPositions :
                /\ SegmentsFrom(PrefixSegments, Components, i)
                /\ i + Len(PrefixSegments) - 1 < Len(Components))

\* C12 witness: an unanchored "prefix/**" has matched a candidate whose
\* first components the prefix does not match.
C12_Witness ==
    /\ decided
    /\ IsPrefixDoubleStar
    /\ ~RuleAnchored
    /\ result.Matched
    /\ ~SegmentsFrom(PrefixSegments, Components, 1)

-----------------------------------------------------------------------------
(* Construction claims.                                                    *)

\* What the rule itself says of its compilation: an action that is neither
\* Include nor Exclude is an invalid rule; otherwise a pattern that, without
\* its surrounding whitespace, holds nothing but separators is an invalid
\* pattern.
BlankPattern(p) == \A i \in 1..Len(TrimSpace(p)) : TrimSpace(p)[i] \in {"/", "\\"}
RuleError(r) ==
    IF r.Action \notin {"Include", "Exclude"} THEN "ErrInvalidRule"
    ELSE IF BlankPattern(r.Pattern) THEN "ErrInvalidPattern"
    ELSE "nil"
FailingRules == {i \in 1..Len(rules) : RuleError(rules[i]) # "nil"}
FirstFailing == CHOOSE i \in FailingRules : \A j \in FailingRules : i <= j

\* C13: NewMatcher fails iff some rule fails to compile, with the error of
\* the first failing rule (the action is judged before the pattern), and then
\* returns no matcher; otherwise it returns a matcher with every rule.
C13_FirstCompileError ==
    matcher.err # "pending" =>
        IF FailingRules = {}
        THEN /\ matcher.err = "nil"
             /\ ~matcher.m.nil
             /\ Len(matcher.m.compiled) = Len(rules)
        ELSE /\ matcher.err = RuleError(rules[FirstFailing])
             /\ matcher.m = NilMatcher

\* C13 witness: two rules fail for different reasons and the error of the
\* earlier one was returned.
C13_Witness ==
    /\ matcher.err # "pending"
    /\ \E i \in FailingRules, j \in FailingRules :
          /\ i < j
          /\ RuleError(rules[i]) # RuleError(rules[j])
          /\ matcher.err = RuleError(rules[i])

-----------------------------------------------------------------------------
(* Load errors of the provider.                                            *)

\* The 1-based positions, in the chain of the call of t, of the directories
\* whose completed cache entry holds an error.
CallChain(t) == ChainOf([relPath |-> th[t].relPath, isDir |-> th[t].isDir])
FailedInChain(t) ==
    {i \in 1..Len(CallChain(t)) :
        Completed(CallChain(t)[i]) /\ cache[CallChain(t)[i]].err # NoError}

\* C14: a Decide of an accepted path returns the error cached for the first
\* directory of its chain whose load failed, and a decision only when none
\* failed; a completed entry was loaded exactly once whatever was written to
\* its file since, holds no matcher beside an error, and no rules when no
\* content was read.  A load that finds no rules file stores (nil, nil), one
\* that cannot read the file or compile its rules stores that error.
C14_LoadErrorCached ==
    /\ [](\A t \in Threads : Accepted(t) =>
             IF th[t].ret.err # NoError
             THEN \E i \in FailedInChain(t) :
                     /\ th[t].ret.err = cache[CallChain(t)[i]].err
                     /\ \A j \in 1..(i - 1) :
                           /\ Completed(CallChain(t)[j])
                           /\ cache[CallChain(t)[j]].err = NoError
             ELSE /\ FailedInChain(t) = {}
                  /\ \A i \in 1..Len(CallChain(t)) : Completed(CallChain(t)[i]))
    /\ [](\A k \in DirKeys : Completed(k) =>
             /\ loads[k] = 1
             /\ cache[k].err # NoError => cache[k].matcher.nil
             /\ k \notin reads => cache[k].matcher.nil)
    /\ [][\A t \in Threads :
             (th[t].pc = "load" /\ th'[t].pc = "lock2") =>
                 /\ fs[relDirOf(t)].kind = "absent" => th'[t].loaded = NoOutcome
                 /\ fs[relDirOf(t)].kind = "denied" => th'[t].loaded.err.op = "read"
                 /\ fs[relDirOf(t)].lines = << <<"/">> >>
                       => th'[t].loaded.err.cause = "ErrInvalidPattern"]_vars

\* C14 witness: both calls returned the error cached for a directory that was
\* loaded once, while the rules file now on disk would load without error.
C14_Witness ==
    \E t1 \in Threads, t2 \in Threads, k \in DirKeys :
        /\ t1 # t2
        /\ Accepted(t1) /\ Accepted(t2)
        /\ Completed(k) /\ cache[k].err # NoError
        /\ th[t1].ret.err = cache[k].err
        /\ th[t2].ret.err = cache[k].err
        /\ loads[k] = 1
        /\ DiskOutcome(k).err = NoError

-----------------------------------------------------------------------------
(* Directory claims, over SpecInDir.                                        *)

\* Both calls of the directory specification have returned.
BothReturned == Returned("t1") /\ Returned("t2")

\* The path Decide is given for entry i of the DecideInDir call.
EntryPath(i) ==
    IF th["t2"].relPath = <<>> THEN th["t2"].entries[i].Name
    ELSE th["t2"].relPath \o <<"/">> \o th["t2"].entries[i].Name

\* Thread t1 asked Decide about entry i of the DecideInDir call of thread t2.
SameQuestion(i) ==
    /\ th["t1"].relPath = EntryPath(i)
    /\ th["t1"].isDir = th["t2"].entries[i].IsDir

\* C15: DecideInDir is Decide per entry.  A call with the single entry
\* (n, d) succeeds exactly when Decide of the directory joined with n
\* succeeds, and then returns the same MatchResult; a successful call returns
\* one result per entry, the result at index i being the one Decide gives
\* for entry i.
C15_DecideInDirIsDecide ==
    BothReturned =>
        /\ (Len(th["t2"].entries) = 1 /\ SameQuestion(1)) =>
               (th["t2"].ret.err = NoError <=> th["t1"].ret.err = NoError)
        /\ th["t2"].ret.err = NoError =>
               /\ ~th["t2"].ret.results.nil
               /\ Len(th["t2"].ret.results.list) = Len(th["t2"].entries)
               /\ \A i \in 1..Len(th["t2"].entries) :
                     (SameQuestion(i) /\ th["t1"].ret.err = NoError) =>
                         th["t2"].ret.results.list[i] = th["t1"].ret.res

\* An entry name the directory call must reject: empty, absolute or with a
\* separator, "." or "..".
NamedInvalid(n) ==
    n = <<>> \/ Contains(n, <<"/">>) \/ n = <<".">> \/ n = <<".", ".">>

HasInvalidEntry ==
    \E i \in 1..Len(th["t2"].entries) : NamedInvalid(th["t2"].entries[i].Name)

\* The provider is not nil, the directory of the DecideInDir call is accepted
\* and the rules files of its chain load without error.
DirPrepared ==
    /\ prov # NoProvider
    /\ cleanRelDir(th["t2"].relPath).err = "nil"
    /\ \A k \in DirKeys :
          (LET chain == dirChain(cleanRelDir(th["t2"].relPath).path)
           IN (\E i \in 1..Len(chain) : chain[i] = k) => DiskOutcome(k).err = NoError)

\* C16 as stated: a DecideInDir with an invalid entry name at any position
\* returns ErrInvalidEntryName and no results.
C16_InvalidEntryNameReturned ==
    (Returned("t2") /\ HasInvalidEntry) =>
        /\ th["t2"].ret.err.cause = "ErrInvalidEntryName"
        /\ th["t2"].ret.results.nil

\* C16, amended: a DecideInDir with an invalid entry name at any position
\* fails and returns no results, not even those of the valid entries before
\* it; the error is ErrInvalidEntryName when the provider is not nil, the
\* directory was accepted and its rules files loaded, and the error of the
\* provider or of the directory otherwise.
C16_InvalidEntryFailsBatch ==
    (Returned("t2") /\ HasInvalidEntry) =>
        /\ th["t2"].ret.err # NoError
        /\ th["t2"].ret.results.nil
        /\ th["t2"].ret.err.cause = "ErrInvalidEntryName" <=> DirPrepared

C16_Witness ==
    /\ Returned("t2") /\ DirPrepared
    /\ Len(th["t2"].entries) = 2
    /\ ~NamedInvalid(th["t2"].entries[1].Name)
    /\ NamedInvalid(th["t2"].entries[2].Name)
    /\ th["t2"].ret.err.cause = "ErrInvalidEntryName"

-----------------------------------------------------------------------------
(* Parser claims, over SpecParse.                                           *)

Blank(c) == c = " " \/ c = "\t"

\* The number of spaces and tabs a line ends with.
RECURSIVE TrailingBlanks(_)
TrailingBlanks(line) ==
    IF line # <<>> /\ Blank(line[Len(line)])
    THEN 1 + TrailingBlanks(SubSeq(line, 1, Len(line) - 1)) ELSE 0

\* The line without its trailing spaces and tabs; when a backslash precedes
\* them, without the backslash and with the first of them.
TrimmedLine(line) ==
    LET n == TrailingBlanks(line)
        body == SubSeq(line, 1, Len(line) - n)
    IN IF n > 0 /\ body # <<>> /\ body[Len(body)] = "\\"
       THEN SubSeq(body, 1, Len(body) - 1) \o <<line[Len(body) + 1]>>
       ELSE body

\* The rules a line stands for: none, or one.
LineRules(line) ==
    LET t == TrimmedLine(line)
        rest == SubSeq(t, 2, Len(t))
    IN IF t = <<>> THEN <<>>
       ELSE IF t[1] = "#" THEN <<>>
       ELSE IF t[1] = "!"
            THEN IF rest = <<>> THEN <<>> ELSE <<[Pattern |-> rest, Action |-> "Include"]>>
       ELSE IF Len(t) >= 2 /\ t[1] = "\\" /\ (t[2] = "#" \/ t[2] = "!")
            THEN <<[Pattern |-> rest, Action |-> "Exclude"]>>
       ELSE <<[Pattern |-> t, Action |-> "Exclude"]>>

RECURSIVE RulesOfLines(_)
RulesOfLines(lines) ==
    IF lines = <<>> THEN <<>> ELSE LineRules(Head(lines)) \o RulesOfLines(Tail(lines))

\* The lines of a text: its parts between "\n", a last part without one when
\* it is not empty, each without the "\r" at its end.
RECURSIVE TextLines(_)
TextLines(text) ==
    LET cut(i) ==
            IF i < 0 THEN <<TrimRight(text, "\r")>>
            ELSE <<TrimRight(SliceTo(text, i), "\r")>> \o TextLines(SliceFrom(text, i + 1))
    IN IF text = <<>> THEN <<>> ELSE cut(IndexByte(text, "\n"))

\* C17 as stated: on a reader that does not fail, ParseRules returns, in
\* line order, the rule of every line that has one, whatever the length of
\* the lines: none for a blank line, a "#" line and a line whose pattern is
\* empty; (p, Include) for "!p"; ("#p", Exclude) for "\#p"; ("!p", Exclude)
\* for "\!p"; (line, Exclude) otherwise.
C17_EveryLineParsed ==
    (parsed.done /\ parsed.err \notin FailingReaderErrors) =>
        /\ parsed.rules = RulesOfLines(TextLines(src))
        /\ \A i \in 1..Len(parsed.rules) :
              /\ parsed.rules[i].Pattern # <<>>
              /\ parsed.rules[i].Action \in {"Include", "Exclude"}

\* C17: a ParseRules that reports no error returns, in line order, the rule
\* of every line that has one: none for a blank line, a "#" line and a line
\* whose pattern is empty; (p, Include) for "!p"; ("#p", Exclude) for "\#p";
\* ("!p", Exclude) for "\!p"; (line, Exclude) otherwise, the line taken
\* without its trailing spaces and tabs except one that a backslash escapes;
\* every returned rule has a pattern that is not empty and the action Include
\* or Exclude.  A ParseRules that reports an error returns no rules, and it
\* reports one whenever a line has MaxScanTokenSize bytes or more.
C17_ParseRules ==
    parsed.done =>
        /\ parsed.err = "nil" =>
              /\ ~parsed.isNil
              /\ parsed.rules = RulesOfLines(TextLines(src))
              /\ \A i \in 1..Len(parsed.rules) :
                    /\ parsed.rules[i].Pattern # <<>>
                    /\ parsed.rules[i].Action \in {"Include", "Exclude"}
        /\ parsed.err # "nil" => parsed.isNil /\ parsed.rules = <<>>
        /\ (\E i \in 1..Len(TextLines(src)) : Len(TextLines(src)[i]) >= MaxScanTokenSize)
              => parsed.err = "ErrTooLong"

\* A text of two rules, the first of a line that ends with an escaped blank.
C17_Witness ==
    /\ parsed.done /\ parsed.err = "nil"
    /\ Len(parsed.rules) = 2
    /\ \E i \in 1..Len(src) - 1 : src[i] = "\\" /\ Blank(src[i + 1])
    /\ Blank(parsed.rules[1].Pattern[Len(parsed.rules[1].Pattern)])

-----------------------------------------------------------------------------
(* Construction claims, over SpecNew.                                       *)

\* A name the construction must refuse: absolute, with a separator, "." or
\* "..".
RefusedName(n) ==
    (n # <<>> /\ n[1] = "/") \/ (\E i \in 1..Len(n) : n[i] = "/")
        \/ n = <<".">> \/ n = <<".", ".">>

\* The rules path of directory k, joined and cleaned character by character,
\* is the directory of k below the root followed by the name.
DirectlyInside(k, n) ==
    CleanStack(Split(k \o <<"/">> \o n), made.p.root) =
        CleanStack(Split(k), made.p.root) \o <<n>>

\* The root was made absolute and, with the symlink escape check on,
\* resolved: the working directory of a relative root is known, and the root
\* is no entry that cannot be examined and no symlink to itself.
RootResolved ==
    /\ made.abs.err = "nil"
    /\ src.EnableSymlinkEscapeCheck => made.entry.kind \notin {"nostat", "loop"}

\* C18: an empty or all-blank name defaults to .pathrules; a name that is
\* absolute, has a separator, or is "." or ".." makes the construction of a
\* provider on a resolved root fail with ErrInvalidRulesFileName; a
\* constructed provider's rules file name is one component, its rules paths
\* directly inside the directory they belong to.
C18_RulesFileNameRefused ==
    made.done =>
        /\ (TrimSpace(src.RulesFileName) = <<>> /\ made.err = NoError) =>
               made.p.rulesFileName = defaultRulesFileName
        /\ (RootResolved /\ RefusedName(src.RulesFileName)) =>
               made.err.cause = "ErrInvalidRulesFileName"
        /\ made.err = NoError =>
               /\ ~RefusedName(made.p.rulesFileName) /\ made.p.rulesFileName # <<>>
               /\ \A k \in DirKeys : DirectlyInside(k, made.p.rulesFileName)

\* C19: a Decide that returns an error returns the zero MatchResult with it,
\* whatever the base rules and the rules files loaded before the failure
\* decided; Included and Excluded return false with the error; a DecideInDir
\* that returns an error returns no result list.
C19_ZeroResultOnError ==
    /\ (Returned("t1") /\ th["t1"].ret.err # NoError) =>
           /\ th["t1"].ret.res = [Included |-> FALSE, Matched |-> FALSE, RuleIndex |-> 0]
           /\ ~th["t1"].ret.included
           /\ ~th["t1"].ret.excluded
    /\ (Returned("t2") /\ th["t2"].ret.err # NoError) => th["t2"].ret.results.nil

\* Decide(a/f) failed on the rules file of a after the root's rules matched.
C19_Witness ==
    /\ Returned("t1") /\ th["t1"].ret.err.cause = "ErrInvalidPattern"
    /\ th["t1"].relPath = <<"a", "/", "f">>
    /\ ScopeDecision(DirRoot, "t1").Matched
    /\ th["t1"].ret.res = ZeroResult

-----------------------------------------------------------------------------
(* Extension claims, over SpecExt.                                          *)

\* The string without the characters of cs it starts with.
RECURSIVE DropLeading(_, _)
DropLeading(e, cs) ==
    IF e # <<>> /\ Head(e) \in cs THEN DropLeading(Tail(e), cs) ELSE e

\* The string without the blanks it ends with.
RECURSIVE DropTrailingBlanks(_)
DropTrailingBlanks(e) ==
    IF e # <<>> /\ e[Len(e)] = " " THEN DropTrailingBlanks(SubSeq(e, 1, Len(e) - 1)) ELSE e

\* The extension an input stands for: trimmed, without one leading "*.",
\* then without any leading ".", in lower case.
ExtensionOf(e) ==
    LET t == DropTrailingBlanks(DropLeading(e, {" "}))
        u == IF Len(t) >= 2 /\ t[1] = "*" /\ t[2] = "." THEN Tail(Tail(t)) ELSE t
        v == DropLeading(u, {"."})
    IN [i \in 1..Len(v) |-> IF v[i] = "A" THEN "a" ELSE v[i]]

RECURSIVE RulesOfExts(_)
RulesOfExts(exts) ==
    IF exts = <<>> THEN <<>>
    ELSE (IF ExtensionOf(Head(exts)) = <<>> THEN <<>>
          ELSE <<[Pattern |-> <<"*", ".">> \o ExtensionOf(Head(exts)),
                  Action |-> "Include"]>>)
         \o RulesOfExts(Tail(exts))

\* The spellings a, .a, *.a and .A of one extension.
Spellings == {<<"a">>, <<".", "a">>, <<"*", ".", "a">>, <<".", "A">>}

\* C20: ParseExtensions returns, in input order, the Include rule *.<ext> of
\* every input whose extension is not empty; the spellings a, .a, *.a and .A
\* give the same rule; ParseExtensions of the patterns of its result is its
\* result.
C20_ParseExtensions ==
    parsed.done =>
        /\ parsed.rules = RulesOfExts(src)
        /\ (Len(src) = 1 /\ src[1] \in Spellings) =>
               parsed.rules = <<[Pattern |-> <<"*", ".", "a">>, Action |-> "Include"]>>
        /\ ParseExtensions([i \in 1..Len(parsed.rules) |-> parsed.rules[i].Pattern])
               = parsed.rules

\* An input with two leading dots beside an input that is skipped.
C20_Witness ==
    /\ parsed.done
    /\ Len(src) = 2 /\ Len(parsed.rules) = 1
    /\ \E i \in 1..2 : Len(src[i]) = 3 /\ src[i][1] = "." /\ src[i][2] = "." /\ src[i][3] = "A"
    /\ parsed.rules[1].Pattern = <<"*", ".", "a">>

-----------------------------------------------------------------------------
(* Merge claims, over SpecMerge.                                            *)

\* The elements the arguments from i on had when the call was made.
RECURSIVE GivenFrom(_)
GivenFrom(i) ==
    IF i > Len(src.args) THEN <<>>
    ELSE Elements(src.given, src.args[i]) \o GivenFrom(i + 1)

\* C21: MergeRules returns the elements of its arguments in argument order,
\* nil and empty arguments adding nothing; an assignment to an element of an
\* argument after the call leaves the elements of the result as they were
\* returned, and an assignment to an element of the result leaves every
\* argument as it was given.
C21_MergeRules ==
    parsed.done =>
        /\ parsed.rules = GivenFrom(1)
        /\ parsed.wrote # "result" => Elements(src.heap, parsed.out) = parsed.rules
        /\ parsed.wrote # "input" =>
              \A i \in 1..Len(src.args) :
                  Elements(src.heap, src.args[i]) = Elements(src.given, src.args[i])

\* An element of the only non-empty argument was assigned after the call.
C21_Witness ==
    /\ parsed.done /\ parsed.wrote = "input"
    /\ Len(src.args) = 2 /\ src.args[1] = 0 /\ src.args[2] # 0
    /\ Len(parsed.rules) = 2
    /\ src.heap[src.args[2]] # src.given[src.args[2]]

-----------------------------------------------------------------------------
(* Case claims, over SpecCase.                                              *)

\* The letter of the other case; any other character is itself.
OtherCase(c) ==
    CASE c = "a" -> "A" [] c = "A" -> "a" [] c = "b" -> "B" [] c = "B" -> "b" [] OTHER -> c

\* The strings that differ from s in the case of one letter.
Recased(s) ==
    {[s EXCEPT ![i] = OtherCase(s[i])] : i \in {j \in 1..Len(s) : OtherCase(s[j]) # s[j]}}

\* The rule lists that differ from the matcher's in the case of one letter of
\* one pattern.
RecasedRules ==
    UNION { {[rules EXCEPT ![i].Pattern = q] : q \in Recased(rules[i].Pattern)} :
            i \in 1..Len(rules) }

\* What a matcher of these rules, with the options of the decided one,
\* decides for the path.
DecisionOf(rs, p) == MatcherDecide(NewMatcherOf(rs, opts).m, p, isDir)

\* The string with every letter in lower case.
Folded(s) == [i \in 1..Len(s) |-> IF OtherCase(s[i]) \in {"a", "b"} THEN OtherCase(s[i]) ELSE s[i]]

\* The matcher has one rule, a pattern of letters and "/" that is the path up
\* to the case of its letters.
SameUpToCase ==
    /\ Len(rules) = 1
    /\ \A i \in 1..Len(rules[1].Pattern) : rules[1].Pattern[i] \in {"a", "A", "b", "B", "/"}
    /\ Folded(rules[1].Pattern) = Folded(path)

\* C22: with case_insensitive on, a matcher decides the same for a pattern or
\* a candidate with a letter in the other case (and so, the inputs being
\* closed under it, with any letters in the other case); the bytes next to
\* the letters are not folded; with case_insensitive off a letter matches
\* only itself.
C22_CaseInvariance ==
    decided =>
        /\ opts.CaseInsensitive =>
              /\ \A q \in Recased(path) : DecisionOf(rules, q) = result
              /\ \A rs \in RecasedRules : DecisionOf(rs, path) = result
        /\ (Len(rules) = 1 /\ rules[1].Pattern \in {<<"^">>, <<"~">>}
               /\ path \in {<<"^">>, <<"~">>}) =>
              (result.Matched <=> rules[1].Pattern = path)
        /\ SameUpToCase =>
              (result.Matched <=> (opts.CaseInsensitive \/ rules[1].Pattern = path))

\* A pattern in upper case matched a candidate in lower case as rule 2.
C22_Witness ==
    /\ decided /\ opts.CaseInsensitive
    /\ result.Matched /\ result.RuleIndex = 1
    /\ rules[2].Pattern = <<"B", "/", "A">>
    /\ path = <<"b", "/", "a">>

-----------------------------------------------------------------------------
(* Wildcard claims, over SpecWildcard.                                      *)

\* C23: matchSimpleWildcard is true exactly when the input can be split so
\* that every "*" of the pattern takes a run of bytes, every "?" one byte and
\* every other byte of the pattern itself.
C23_WildcardIsGlob ==
    parsed.done => (parsed.ok <=> GlobFrom(src.pattern, 0, src.input, 0))

\* The compiled form of the one rule, whether compileRule chose a hand-rolled
\* path strategy for it, and the regular expression the fallback of
\* compileRule builds for the same trimmed pattern.
TheCompiled == matcher.m.compiled[1]
HandRolled ==
    /\ TheCompiled.hasSlash
    /\ \/ TheCompiled.pathExact # <<>>
       \/ Len(TheCompiled.pathPrefixSegments) > 0
       \/ Len(TheCompiled.pathSegments) > 0
FallbackRE ==
    regexpCompile((IF TheCompiled.anchored THEN <<"^">> ELSE ReAnywhere)
                  \o globToRegexPath(RuleText)
                  \o (IF TheCompiled.dirOnly THEN ReDirSuffix ELSE <<"$">>))
OneRuleDecided ==
    /\ decided /\ matcher.err = "nil" /\ Len(rules) = 1
    /\ HandRolled /\ Candidate # <<>>

\* C24: for a slash-containing pattern without a character class, the
\* hand-rolled strategy compileRule chooses (PathExact, PathSegments or
\* PathPrefixSegments) gives, on every normalized candidate and is_dir flag,
\* the result of the regex fallback built for the same pattern.
C24_StrategyIsFallback ==
    OneRuleDecided => (result.Matched <=> MatchString(FallbackRE, Candidate))

\* C25: normalizing is idempotent: normalizePath applied to what
\* normalizePath returned gives it back unchanged.
C25_NormalizeIdempotent ==
    (parsed.done /\ parsed.redone) => parsed.again = parsed.out

\* C26: a thread reads a directory's rules file only after it inserted the
\* loading entry of that directory itself, and no other thread does while
\* the entry is loading; the cache mutex is held only in the lookup and in
\* the store, never by a thread that reads a rules file or waits for an
\* entry.
C26_LoaderOwnsIO ==
    /\ [](\A t \in Threads :
             /\ mu = t => th[t].pc \in {"lookup", "store", "unlock"}
             /\ th[t].pc \in {"load", "await"} => mu # t
             /\ OwnsLoad(t) =>
                   /\ cache[relDirOf(t)].loading
                   /\ \A u \in Threads \ {t} :
                         ~(OwnsLoad(u) /\ relDirOf(u) = relDirOf(t)))
    /\ [][/\ \A t \in Threads :
               (th[t].pc # "load" /\ th'[t].pc = "load") =>
                   /\ mu = t
                   /\ ~cache[relDirOf(t)].ok
                   /\ cache'[relDirOf(t)] = LoadingEntry
          /\ \A k \in DirKeys :
               (loads'[k] # loads[k] \/ (k \in reads' /\ k \notin reads)) =>
                   \E t \in Threads :
                       /\ th[t].pc = "load" /\ th'[t].pc = "lock2"
                       /\ relDirOf(t) = k
                       /\ mu # t]_vars

\* C26 witness: a thread has read the rules file of a directory it is loading
\* and has not stored the outcome yet, while the other thread holds the mutex
\* to look the same directory up.
C26_Witness ==
    \E t \in Threads, u \in Threads :
        /\ th[t].pc = "lock2" /\ relDirOf(t) \in reads
        /\ th[u].pc = "lookup" /\ mu = u
        /\ relDirOf(u) = relDirOf(t)

\* The (matcher, error) pair stored in the cache entry of directory k.
StoredPair(k) == [matcher |-> cache[k].matcher, err |-> cache[k].err]

\* C27: loadDirMatcher returns for a directory only once its entry has left
\* the loading state, and what it returns, to the loader and to a thread
\* that waited alike, is the (matcher, error) pair stored in the entry: no
\* call returns "no rules file" or another value for a directory whose load
\* completes with a matcher or an error.
C27_NoUnfinishedLoad ==
    /\ [](\A o \in seen :
             /\ Completed(o.dir)
             /\ [matcher |-> o.matcher, err |-> o.err] = StoredPair(o.dir))
    /\ [][\A t \in Threads :
             (th[t].pc \in {"await", "unlock"} /\ th'[t] # th[t]) =>
                 /\ cache'[relDirOf(t)].ok
                 /\ ~cache'[relDirOf(t)].loading
                 /\ cache'[relDirOf(t)].wg = 0
                 /\ \E o \in seen' :
                       /\ o.dir = relDirOf(t)
                       /\ o.matcher = cache'[o.dir].matcher
                       /\ o.err = cache'[o.dir].err]_vars

\* C27 witness: a thread found a directory loading and waited; the loader
\* has stored and returned an outcome that is not "no rules file", and the
\* waiting thread is released to return it.
C27_Witness ==
    \E t \in Threads, o \in seen :
        /\ th[t].pc = "await" /\ th[t].loading
        /\ o.dir = relDirOf(t)
        /\ Completed(o.dir)
        /\ o # [dir |-> o.dir, matcher |-> NilMatcher, err |-> NoError]
        /\ loads[o.dir] = 1

\* C28: under fair scheduling every entry that enters the loading state is
\* completed, whatever its load produced; its latch is raised once, by the
\* insertion, and signalled once, by the store that completes it; every
\* thread waiting for an entry is released and every call of Decide and
\* DecideInDir returns.
C28_Progress ==
    /\ [][\A k \in DirKeys :
             cache'[k].wg # cache[k].wg =>
                 \/ /\ ~cache[k].ok /\ cache[k].wg = 0
                    /\ cache'[k].loading /\ cache'[k].wg = 1
                 \/ /\ cache[k].loading /\ cache[k].wg = 1
                    /\ cache'[k].ok /\ ~cache'[k].loading /\ cache'[k].wg = 0]_vars
    /\ \A k \in DirKeys : cache[k].loading ~> (Completed(k) /\ cache[k].wg = 0)
    /\ \A t \in Threads : (th[t].pc = "await") ~> (th[t].pc # "await")
    /\ \A t \in Threads : (th[t].pc # "idle") ~> (th[t].pc = "idle")

\* C28 witness: a thread that found a directory loading and waited for it
\* has returned from its call, with the error the load of that directory
\* produced, and so has the thread that loaded it.
C28_Witness ==
    \E t \in Threads, u \in Threads, k \in DirKeys :
        /\ t # u
        /\ Returned(t) /\ Returned(u)
        /\ Completed(k) /\ cache[k].err # NoError /\ loads[k] = 1
        /\ th[t].ret.err = cache[k].err /\ th[u].ret.err = cache[k].err
        /\ th[t].inDir /\ ~th[u].inDir

\* Whether cleanRelPath rejects the path thread t was called with.
RejectedCall(t) == cleanRelPath(th[t].relPath).err # "nil"

\* C29: a Decide of a rejected path returns at once, with the zero result and
\* the error, and leaves the cache, the mutex, the load counts and the set of
\* files read as they were; a thread inside the lookups has an accepted path;
\* and a step of a Decide changes the cache entry only of the root and of
\* the directories on the way to the candidate's directory (to the candidate
\* when it is a directory).
C29_ValidationFirst ==
    /\ [](\A t \in Threads : (th[t].called /\ RejectedCall(t)) =>
             /\ th[t].pc = "idle"
             /\ th[t].ret.res = ZeroResult
             /\ th[t].ret.err = ProviderError("", <<>>, cleanRelPath(th[t].relPath).err)
             /\ th[t].chain = <<>>)
    /\ [][\A t \in Threads :
             (th'[t] # th[t] /\ th'[t].called /\ cleanRelPath(th'[t].relPath).err # "nil") =>
                 /\ th[t].pc = "idle"
                 /\ UNCHANGED <<cache, mu, loads, reads, seen, fs>>]_vars
    /\ [][\A k \in DirKeys :
             cache'[k] # cache[k] =>
                 \E t \in Threads :
                     /\ th[t].pc \in {"lookup", "store"}
                     /\ ~th[t].inDir
                     /\ ~RejectedCall(t)
                     /\ k \in ScopeDirs(t)]_vars

\* C29 witness: after a Decide of an accepted path filled the cache, a Decide
\* of a rejected path has returned, and a directory outside the scope of
\* both has no entry.
C29_Witness ==
    \E t \in Threads :
        /\ Returned(t) /\ RejectedCall(t)
        /\ Completed(DirRoot) /\ Completed(DirA)
        /\ ~cache[DirAA].ok

\* The rules a matcher was compiled from, and the default action in force
\* for options o (an unset one is Include).
RulesOfMatcher(m) == [i \in 1..Len(m.compiled) |-> m.compiled[i].source]
DefaultOf(o) == IF o.DefaultAction \in {"Include", "Exclude"} THEN o.DefaultAction ELSE "Include"

\* The decision of the rules file of directory k for a candidate, and the
\* rules of the last scope that matched it among the base rules and the
\* rules files of the directories S, from the shallowest to the deepest.
DecisionIn(k, cand, d) ==
    LET m == DiskOutcome(k).matcher
    IN IF m.nil THEN Unmatched
       ELSE IF k = <<>> THEN MatcherDecide(m, cand, d)
       ELSE IF HasPrefix(cand, k \o <<"/">>)
            THEN MatcherDecide(m, SliceFrom(cand, Len(k) + 1), d)
       ELSE Unmatched

LastScopeRules(S, cand, d) ==
    LET ms == {k \in S : DecisionIn(k, cand, d).Matched}
    IN IF ms # {} THEN RulesOfMatcher(DiskOutcome(Deepest(ms)).matcher)
       ELSE RulesOfMatcher(prov.baseMatcher)

\* A result is well formed for a default action and the rules rs of the
\* scope that matched last.
WellFormed(res, default, rs) ==
    /\ ~res.Matched <=> res.RuleIndex = -1
    /\ ~res.Matched => res.Included = (default = "Include")
    /\ res.Matched =>
          /\ res.RuleIndex \in 0..(Len(rs) - 1)
          /\ res.Included = (rs[res.RuleIndex + 1].Action = "Include")

\* The directories whose rules files DecideInDir of thread t prepares.
InDirScopes(t) ==
    LET dir == cleanRelDir(th[t].relPath).path
    IN {k \in DirKeys : k = <<>> \/ k = dir \/ HasPrefix(dir, k \o <<"/">>)}

\* C30: a MatchResult returned without error by Matcher.Decide,
\* Provider.Decide or DecideInDir is unmatched exactly when its rule index
\* is -1; unmatched, it is included exactly when the default action is
\* Include; matched, its rule index is an index of the rules of the scope
\* that matched last and it is included exactly when that rule includes.
C30_ResultWellFormed ==
    /\ decided => WellFormed(result, DefaultOf(opts), rules)
    /\ \A t \in Threads :
          (Returned(t) /\ th[t].ret.err = NoError /\ ~th[t].inDir) =>
              WellFormed(th[t].ret.res, prov.matcherOptions.DefaultAction,
                         LastScopeRules(ScopeDirs(t), NormOf(t), th[t].isDir))
    /\ \A t \in Threads :
          (Returned(t) /\ th[t].ret.err = NoError /\ th[t].inDir) =>
              \A i \in 1..Len(th[t].entries) :
                  WellFormed(th[t].ret.results.list[i], prov.matcherOptions.DefaultAction,
                             LastScopeRules(InDirScopes(t),
                                            IF th[t].relPath = <<>> THEN th[t].entries[i].Name
                                            ELSE th[t].relPath \o <<"/">> \o th[t].entries[i].Name,
                                            th[t].entries[i].IsDir))

\* C30 witness: Decide returned the decision of the second rule of the rules
\* file of a directory after the base rules and the first rule of the root
\* file had matched, the root file with the opposite decision, and
\* DecideInDir returned an unmatched result for one entry.
C30_Witness ==
    /\ Returned("t1") /\ th["t1"].ret.err = NoError
    /\ BaseResult("t1").Matched
    /\ ScopeDecision(DirRoot, "t1").Matched
    /\ ScopeDecision(DirRoot, "t1").RuleIndex = 0
    /\ th["t1"].ret.res.Matched /\ th["t1"].ret.res.RuleIndex = 1
    /\ th["t1"].ret.res.Included # ScopeDecision(DirRoot, "t1").Included
    /\ Returned("t2") /\ th["t2"].ret.err = NoError
    /\ \E i \in 1..Len(th["t2"].entries) : ~th["t2"].ret.results.list[i].Matched

====
